---- MODULE Spec2Model ----
(***************************************************************************)
(* FS-IO: sandboxed filesystem access below a data directory, with a       *)
(* write-through cache (IO -> ReadOnly -> ReadWrite).                      *)
(*                                                                         *)
(* Strings are sequences of one-character strings, so that                 *)
(* String.prototype.startsWith and path.resolve work on characters as the  *)
(* JavaScript does.  Buffers are sequences of one-character strings too.   *)
(***************************************************************************)
EXTENDS Integers, Sequences, FiniteSets, TLC

(***************************************************************************)
(* Bounds of the model.                                                    *)
(***************************************************************************)
\* Number of operations called on the instance in one run.
MaxOps == 3
\* Number of symbolic links the filesystem follows in one lookup before ELOOP.
MaxFollow == 2
\* Number of asynchronous calls made without waiting for one another in one run.
MaxCalls == 3

(***************************************************************************)
(* Strings and node's path.resolve (posix).                                *)
(***************************************************************************)
Sep == "/"

\* String.prototype.startsWith(prefix)
StartsWith(s, prefix) ==
    /\ Len(s) >= Len(prefix)
    /\ SubSeq(s, 1, Len(prefix)) = prefix

\* The position of the first separator of s, or Len(s) + 1 when there is none.
RECURSIVE FirstSep(_, _)
FirstSep(s, i) ==
    IF i > Len(s) THEN i
    ELSE IF s[i] = Sep THEN i
    ELSE FirstSep(s, i + 1)

\* s.split('/'): the segments of s between separators (empty ones included).
RECURSIVE Split(_)
Split(s) ==
    LET k == FirstSep(s, 1)
    IN  IF k > Len(s) THEN << s >>
        ELSE << SubSeq(s, 1, k - 1) >> \o Split(SubSeq(s, k + 1, Len(s)))

Dot == << "." >>
DotDot == << ".", "." >>

\* normalizeString of an absolute path: "." and empty segments are dropped,
\* ".." removes the segment before it and is dropped at the root.
RECURSIVE NormalizeSegs(_, _)
NormalizeSegs(segs, acc) ==
    IF segs = << >> THEN acc
    ELSE LET h == Head(segs)
             t == Tail(segs)
         IN  IF h = << >> \/ h = Dot THEN NormalizeSegs(t, acc)
             ELSE IF h = DotDot
                  THEN NormalizeSegs(t, IF acc = << >> THEN acc
                                        ELSE SubSeq(acc, 1, Len(acc) - 1))
             ELSE NormalizeSegs(t, Append(acc, h))

\* The absolute path with the given segments.
RECURSIVE JoinSegs(_)
JoinSegs(segs) ==
    IF segs = << >> THEN << >>
    ELSE << Sep >> \o Head(segs) \o JoinSegs(Tail(segs))

PathOf(segs) == IF segs = << >> THEN << Sep >> ELSE JoinSegs(segs)

IsAbsolute(s) == Len(s) > 0 /\ s[1] = Sep

\* The working directory of the process.
Cwd == << Sep >>

\* path.resolve(...args): the arguments are prepended from the right until the
\* path is absolute (empty arguments are skipped), the working directory is
\* used when none is, and the result is normalized.
RECURSIVE ResolveJoin(_, _)
ResolveJoin(args, acc) ==
    IF IsAbsolute(acc) THEN acc
    ELSE IF args = << >> THEN Cwd \o << Sep >> \o acc
    ELSE LET p == args[Len(args)]
             rest == SubSeq(args, 1, Len(args) - 1)
         IN  IF p = << >> THEN ResolveJoin(rest, acc)
             ELSE ResolveJoin(rest, p \o << Sep >> \o acc)

PathResolve(args) == PathOf(NormalizeSegs(Split(ResolveJoin(args, << >>)), << >>))

SegsOf(p) == NormalizeSegs(Split(p), << >>)

\* path.dirname of a normalized absolute path.
Parent(p) ==
    LET segs == SegsOf(p)
    IN  IF segs = << >> THEN << Sep >> ELSE PathOf(SubSeq(segs, 1, Len(segs) - 1))

\* path.basename of a normalized absolute path.
BaseName(p) ==
    LET segs == SegsOf(p)
    IN  IF segs = << >> THEN << >> ELSE segs[Len(segs)]

(***************************************************************************)
(* The filesystem collaborator (node's fs over a POSIX filesystem).        *)
(* fs.names maps each existing absolute path to its entry, fs.data maps    *)
(* each inode in use to the bytes of the file.  Hard links share an inode. *)
(***************************************************************************)
DirEntry == [kind |-> "dir", ino |-> 0, target |-> << >>]
FileEntry(i) == [kind |-> "file", ino |-> i, target |-> << >>]
LinkEntry(t) == [kind |-> "symlink", ino |-> 0, target |-> t]

Exists(names, p) == p \in DOMAIN names

\* f with the key k set to v (k added when absent).
Put(f, k, v) == [x \in DOMAIN f \cup {k} |-> IF x = k THEN v ELSE f[x]]

\* f without the keys in ks.
Drop(f, ks) == [x \in DOMAIN f \ ks |-> f[x]]

UsedInos(names) == {names[p].ino : p \in {q \in DOMAIN names : names[q].kind = "file"}}

\* The lowest inode number not in use.
FreshIno(names) ==
    LET used == UsedInos(names)
    IN  CHOOSE i \in 1..(Cardinality(used) + 1) :
            /\ i \notin used
            /\ \A j \in 1..(i - 1) : j \in used

\* The bytes of inodes no name refers to are released.
Release(names, data) == [i \in DOMAIN data \cap UsedInos(names) |-> data[i]]

FsErr(code) == [err |-> code, path |-> << >>]

\* Path lookup: walks the segments in rest from the directory cur, following a
\* symbolic link met on the way (and the last one when followLast); at most
\* fuel links are followed.  The path returned may name no entry (its parent
\* then exists and is a directory).
RECURSIVE Lookup(_, _, _, _, _)
Lookup(names, cur, rest, followLast, fuel) ==
    IF rest = << >> THEN [err |-> "", path |-> PathOf(cur)]
    ELSE LET curP == PathOf(cur)
             nxt == Append(cur, Head(rest))
             nxtP == PathOf(nxt)
             isLast == Len(rest) = 1
         IN  IF ~Exists(names, curP) THEN FsErr("ENOENT")
             ELSE IF names[curP].kind # "dir" THEN FsErr("ENOTDIR")
             ELSE IF ~Exists(names, nxtP)
                  THEN IF isLast THEN [err |-> "", path |-> nxtP] ELSE FsErr("ENOENT")
             ELSE IF names[nxtP].kind = "symlink" /\ (~isLast \/ followLast)
                  THEN IF fuel = 0 THEN FsErr("ELOOP")
                       ELSE Lookup(names, << >>,
                                   SegsOf(names[nxtP].target) \o Tail(rest),
                                   followLast, fuel - 1)
             ELSE Lookup(names, nxt, Tail(rest), followLast, fuel)

Resolve(names, p, followLast) == Lookup(names, << >>, SegsOf(p), followLast, MaxFollow)

\* fs.readFile / fs.readFileSync
FsReadFile(fs, p) ==
    LET r == Resolve(fs.names, p, TRUE)
    IN  IF r.err # "" THEN [err |-> r.err, data |-> << >>]
        ELSE IF ~Exists(fs.names, r.path) THEN [err |-> "ENOENT", data |-> << >>]
        ELSE IF fs.names[r.path].kind # "file" THEN [err |-> "EISDIR", data |-> << >>]
        ELSE [err |-> "", data |-> fs.data[fs.names[r.path].ino]]

\* fs.writeFile / fs.writeFileSync: creates the file or replaces its content.
FsWriteFile(fs, p, data) ==
    LET r == Resolve(fs.names, p, TRUE)
    IN  IF r.err # "" THEN [err |-> r.err, fs |-> fs]
        ELSE IF Exists(fs.names, r.path)
             THEN IF fs.names[r.path].kind # "file" THEN [err |-> "EISDIR", fs |-> fs]
                  ELSE [err |-> "",
                        fs |-> [fs EXCEPT !.data = Put(@, fs.names[r.path].ino, data)]]
        ELSE LET i == FreshIno(fs.names)
             IN  [err |-> "",
                  fs |-> [names |-> Put(fs.names, r.path, FileEntry(i)),
                          data |-> Put(fs.data, i, data)]]

\* fs.readdir / fs.readdirSync: the names of the entries of a directory.
FsReaddir(fs, p) ==
    LET r == Resolve(fs.names, p, TRUE)
    IN  IF r.err # "" THEN [err |-> r.err, names |-> {}]
        ELSE IF ~Exists(fs.names, r.path) THEN [err |-> "ENOENT", names |-> {}]
        ELSE IF fs.names[r.path].kind # "dir" THEN [err |-> "ENOTDIR", names |-> {}]
        ELSE [err |-> "",
              names |-> {BaseName(q) : q \in {x \in DOMAIN fs.names :
                                                x # r.path /\ Parent(x) = r.path}}]

\* fs.lstat / fs.lstatSync: the kind of the entry, a symbolic link not followed.
FsLstat(fs, p) ==
    LET r == Resolve(fs.names, p, FALSE)
    IN  IF r.err # "" THEN [err |-> r.err, kind |-> ""]
        ELSE IF ~Exists(fs.names, r.path) THEN [err |-> "ENOENT", kind |-> ""]
        ELSE [err |-> "", kind |-> fs.names[r.path].kind]

\* fs.realpath / fs.realpathSync
FsRealpath(fs, p) ==
    LET r == Resolve(fs.names, p, TRUE)
    IN  IF r.err # "" THEN r
        ELSE IF ~Exists(fs.names, r.path) THEN FsErr("ENOENT")
        ELSE r

\* mkdir -p from the directory cur: the missing directories of rest are
\* created, existing ones (or links to them) are entered.
RECURSIVE MkdirWalk(_, _, _)
MkdirWalk(names, cur, rest) ==
    IF rest = << >> THEN [err |-> "", names |-> names]
    ELSE LET nxt == Append(cur, Head(rest))
             nxtP == PathOf(nxt)
         IN  IF ~Exists(names, nxtP)
             THEN MkdirWalk(Put(names, nxtP, DirEntry), nxt, Tail(rest))
             ELSE IF names[nxtP].kind = "dir" THEN MkdirWalk(names, nxt, Tail(rest))
             ELSE IF names[nxtP].kind = "symlink"
                  THEN LET r == Resolve(names, nxtP, TRUE)
                       IN  IF r.err = "" /\ Exists(names, r.path)
                              /\ names[r.path].kind = "dir"
                           THEN MkdirWalk(names, SegsOf(r.path), Tail(rest))
                           ELSE [err |-> IF Len(rest) = 1 THEN "EEXIST" ELSE "ENOTDIR",
                                 names |-> names]
             ELSE [err |-> IF Len(rest) = 1 THEN "EEXIST" ELSE "ENOTDIR", names |-> names]

\* fs.mkdir / fs.mkdirSync with { recursive: true }
FsMkdir(fs, p) ==
    LET r == MkdirWalk(fs.names, << >>, SegsOf(p))
    IN  IF r.err # "" THEN [err |-> r.err, fs |-> fs]
        ELSE [err |-> "", fs |-> [fs EXCEPT !.names = r.names]]

\* fs.symlink / fs.symlinkSync: a new symbolic link at p holding target.
FsSymlink(fs, target, p) ==
    LET r == Resolve(fs.names, p, FALSE)
    IN  IF r.err # "" THEN [err |-> r.err, fs |-> fs]
        ELSE IF Exists(fs.names, r.path) THEN [err |-> "EEXIST", fs |-> fs]
        ELSE [err |-> "", fs |-> [fs EXCEPT !.names = Put(@, r.path, LinkEntry(target))]]

\* fs.link / fs.linkSync: a second name for the entry at existing.
FsLink(fs, existing, new) ==
    LET r == Resolve(fs.names, existing, FALSE)
        n == Resolve(fs.names, new, FALSE)
    IN  IF r.err # "" THEN [err |-> r.err, fs |-> fs]
        ELSE IF ~Exists(fs.names, r.path) THEN [err |-> "ENOENT", fs |-> fs]
        ELSE IF fs.names[r.path].kind = "dir" THEN [err |-> "EPERM", fs |-> fs]
        ELSE IF n.err # "" THEN [err |-> n.err, fs |-> fs]
        ELSE IF Exists(fs.names, n.path) THEN [err |-> "EEXIST", fs |-> fs]
        ELSE [err |-> "", fs |-> [fs EXCEPT !.names = Put(@, n.path, fs.names[r.path])]]

\* The paths at and below p.
Subtree(names, p) == {q \in DOMAIN names : q = p \/ StartsWith(q, p \o << Sep >>)}

\* fs.rename / fs.renameSync: the entry at old (with everything below it)
\* becomes the entry at new, replacing a file or an empty directory there.
FsRename(fs, old, new) ==
    LET r == Resolve(fs.names, old, FALSE)
        n == Resolve(fs.names, new, FALSE)
    IN  IF r.err # "" THEN [err |-> r.err, fs |-> fs]
        ELSE IF ~Exists(fs.names, r.path) THEN [err |-> "ENOENT", fs |-> fs]
        ELSE IF n.err # "" THEN [err |-> n.err, fs |-> fs]
        ELSE IF r.path = << Sep >> \/ n.path = << Sep >> THEN [err |-> "EBUSY", fs |-> fs]
        ELSE IF r.path = n.path THEN [err |-> "", fs |-> fs]
        ELSE LET e == fs.names[r.path]
                 isDir == e.kind = "dir"
                 there == Exists(fs.names, n.path)
             IN  IF isDir /\ StartsWith(n.path, r.path \o << Sep >>)
                 THEN [err |-> "EINVAL", fs |-> fs]
                 ELSE IF there /\ isDir /\ fs.names[n.path].kind # "dir"
                      THEN [err |-> "ENOTDIR", fs |-> fs]
                 ELSE IF there /\ ~isDir /\ fs.names[n.path].kind = "dir"
                      THEN [err |-> "EISDIR", fs |-> fs]
                 ELSE IF there /\ isDir /\ Subtree(fs.names, n.path) # {n.path}
                      THEN [err |-> "ENOTEMPTY", fs |-> fs]
                 ELSE IF there /\ e.kind = "file" /\ fs.names[n.path] = e
                      THEN [err |-> "", fs |-> fs]
                 ELSE LET moved == Subtree(fs.names, r.path)
                          kept == DOMAIN fs.names \ (moved \cup {n.path})
                          dest(q) == n.path \o SubSeq(q, Len(r.path) + 1, Len(q))
                          names2 == [x \in kept \cup {dest(q) : q \in moved} |->
                                       IF x \in kept THEN fs.names[x]
                                       ELSE fs.names[CHOOSE q \in moved : dest(q) = x]]
                      IN  [err |-> "",
                           fs |-> [names |-> names2, data |-> Release(names2, fs.data)]]

\* fs.copyFileSync: the bytes of src become the content of dst.
FsCopyFile(fs, src, dst) ==
    LET r == Resolve(fs.names, src, TRUE)
        n == Resolve(fs.names, dst, TRUE)
    IN  IF r.err # "" THEN [err |-> r.err, fs |-> fs]
        ELSE IF ~Exists(fs.names, r.path) THEN [err |-> "ENOENT", fs |-> fs]
        ELSE IF fs.names[r.path].kind # "file" THEN [err |-> "EISDIR", fs |-> fs]
        ELSE IF n.err # "" THEN [err |-> n.err, fs |-> fs]
        ELSE LET bytes == fs.data[fs.names[r.path].ino]
             IN  IF Exists(fs.names, n.path)
                 THEN IF fs.names[n.path].kind # "file" THEN [err |-> "EISDIR", fs |-> fs]
                      ELSE [err |-> "",
                            fs |-> [fs EXCEPT !.data = Put(@, fs.names[n.path].ino, bytes)]]
                 ELSE LET i == FreshIno(fs.names)
                      IN  [err |-> "",
                           fs |-> [names |-> Put(fs.names, n.path, FileEntry(i)),
                                   data |-> Put(fs.data, i, bytes)]]

(***************************************************************************)
(* The cache collaborator (@serum-enterprises/cache): a store of buffers   *)
(* by key, limited to a budget in bytes.  Which entries it evicts to make  *)
(* room is its own policy: every choice of victims is a possible outcome.  *)
(***************************************************************************)
RECURSIVE SizeOf(_, _)
SizeOf(store, keys) ==
    IF keys = {} THEN 0
    ELSE LET k == CHOOSE x \in keys : TRUE
         IN  Len(store[k]) + SizeOf(store, keys \ {k})

StoreSize(store) == SizeOf(store, DOMAIN store)

NewCache(n) == [budget |-> n, store |-> << >>]

CacheHas(c, k) == k \in DOMAIN c.store

CacheGet(c, k) == c.store[k]

CacheDelete(c, k) == [c EXCEPT !.store = Drop(@, {k})]

\* A cache that keeps every buffer it is given, whatever its budget.
CacheSetUnbounded(c, k, v) == {[c EXCEPT !.store = Put(@, k, v)]}

\* cache.set(k, v): the caches that may result.  A buffer larger than the
\* budget is not kept; otherwise entries are evicted only as far as needed.
CacheSet(c, k, v) ==
    LET base == Drop(c.store, {k})
        fits(vs) == StoreSize(Drop(base, vs)) + Len(v) <= c.budget
    IN  IF Len(v) > c.budget THEN {[c EXCEPT !.store = base]}
        ELSE {[c EXCEPT !.store = Put(Drop(base, vs), k, v)] :
                vs \in {ws \in SUBSET DOMAIN base :
                          /\ fits(ws)
                          /\ \A w \in ws : ~fits(ws \ {w})}}

\* cache.rename(old, new) on an entry the cache holds: the buffer moves to new.
CacheRename(c, old, new) ==
    [c EXCEPT !.store = Put(Drop(@, {old}), new, c.store[old])]

(***************************************************************************)
(* Inputs.                                                                 *)
(***************************************************************************)
\* An argument that is not a string (undefined, a number, ...).
NotAString == << "undefined" >>
\* The place of an argument the operation does not take.
NoArg == << "none" >>

IsString(x) == x # NotAString

\* The path arguments given to the operations.
PathArgs ==
    { << "a" >>,                          \* a file in the data directory
      << "s" >>,                          \* a directory
      << "s", "/", "a" >>,                \* a file below it
      << >>,                              \* the data directory itself
      << ".", "." >>,                     \* its parent
      << ".", ".", "/", "d", "2" >>,      \* a sibling whose name starts with its name
      << "/", "a" >>,                     \* an absolute path
      NotAString }

\* The buffers written.
B1 == << "x" >>
B2 == << "y", "y" >>
Buffers == {B1, B2}
\* A data argument that is no Buffer.
NotABuffer == << "string" >>
DataArgs == Buffers \cup {NotABuffer}

IsBuffer(x) == x # NotABuffer

\* The dataDir arguments of the constructor.
DataDirArgs == { << "/", "d" >>, << ".", "/", "d" >> }

\* The cache arguments of the constructor: null, or a budget in bytes.
CacheArgs ==
    { [tag |-> "null", n |-> 0], [tag |-> "int", n |-> 1], [tag |-> "int", n |-> 3] }

\* The filesystems the instance may be constructed on.
RootOnly == [names |-> (<< Sep >> :> DirEntry), data |-> << >>]

Populated ==
    [names |-> (<< Sep >> :> DirEntry)
               @@ (<< Sep, "d" >> :> DirEntry)
               @@ (<< Sep, "d", Sep, "a" >> :> FileEntry(1))
               @@ (<< Sep, "d", Sep, "s" >> :> DirEntry)
               @@ (<< Sep, "d", Sep, "s", Sep, "a" >> :> FileEntry(2)),
     data |-> (1 :> B1) @@ (2 :> B2)]

InitialDisks == {RootOnly, Populated}

(***************************************************************************)
(* The instance.                                                           *)
(***************************************************************************)
VARIABLES
    dataDir,    \* IO.#dataDir
    cache,      \* IO.#cache
    fs,         \* the filesystem
    last,       \* the call just made: its arguments, its outcome, its filesystem
                \* calls, and the cache and the filesystem it was made on
    nOps,       \* the number of operations called
    tasks       \* the asynchronous calls made without waiting for the ones before

vars == << dataDir, cache, fs, last, nOps, tasks >>

\* No call is being looked at: the caller is about to make its next call.
Idle == [op |-> "", a |-> NoArg, b |-> NoArg, buf |-> NoArg,
         outcome |-> "", code |-> "", data |-> << >>, names |-> {},
         kind |-> "", param |-> "", calls |-> << >>,
         before |-> NewCache(0), diskBefore |-> RootOnly]

\* IO.constructor with a string dataDir and a valid cache argument.
Init ==
    \E dir \in DataDirArgs, c \in CacheArgs, disk \in InitialDisks :
        LET resolved == PathResolve(<< dir >>)
            made == FsMkdir(disk, resolved)
        IN  /\ made.err = ""
            /\ cache = IF c.tag = "null" THEN NewCache(0) ELSE NewCache(c.n)
            /\ dataDir = resolved
            /\ fs = made.fs
            /\ last = Idle
            /\ nOps = 0
            /\ tasks = << >>

(***************************************************************************)
(* Outcomes of a call.                                                     *)
(***************************************************************************)
Outcome(o, code, data, names, kind) ==
    [outcome |-> o, code |-> code, data |-> data, names |-> names, kind |-> kind,
     param |-> ""]

\* throw new TypeError(...) / throw new RangeError(...)
Threw(error) == Outcome(error, "", << >>, {}, "")
\* the same, of the two-path operations: param is the parameter the message
\* names, "first" or "second" ('Expected oldPathname to be ...')
ThrewFor(error, param) == [Threw(error) EXCEPT !.param = param]
\* the native error of a failed filesystem call, thrown or rejected as it is
FsThrew(code) == Outcome("Error", code, << >>, {}, "")
\* a value returned (or resolved to)
Returned(data) == Outcome("ok", "", data, {}, "")
ReturnedNames(names) == Outcome("ok", "", << >>, names, "")
ReturnedKind(kind) == Outcome("ok", "", << >>, {}, kind)
\* Result.OK(value) / Result.E(error) of the result-wrapping accessors
ResultOK(data) == Outcome("ResultOK", "", data, {}, "")
ResultOKNames(names) == Outcome("ResultOK", "", << >>, names, "")
ResultOKFlag(flag) == Outcome("ResultOK", "", << >>, {}, IF flag THEN "true" ELSE "false")
ResultE(code) == Outcome("ResultE", code, << >>, {}, "")

\* One call of a filesystem primitive with the paths handed to it.
FsCall(prim, paths) == [prim |-> prim, paths |-> paths]

\* A way a call may end: with res after the filesystem calls in calls,
\* leaving the cache c2 and the filesystem fs2.
End(res, calls, c2, fs2) == [res |-> res, calls |-> calls, cache |-> c2, fs |-> fs2]

\* The call ends before any filesystem call and changes nothing.
Refuse(res) == {End(res, << >>, cache, fs)}

\* The guard of every operation: resolved.startsWith(this.dataDir)
Contained(resolved) == StartsWith(resolved, dataDir)

\* The two type checks and the two containment checks of the operations
\* that take a source and a destination: the error that ends the call
\* before the filesystem is touched and the parameter its message names, or
\* "pass".
TwoPathGuard(source, destination) ==
    IF ~IsString(source) THEN [error |-> "TypeError", param |-> "first"]
    ELSE IF ~IsString(destination) THEN [error |-> "TypeError", param |-> "second"]
    ELSE IF ~Contained(PathResolve(<< dataDir, source >>))
         THEN [error |-> "RangeError", param |-> "first"]
    ELSE IF ~Contained(PathResolve(<< dataDir, destination >>))
         THEN [error |-> "RangeError", param |-> "second"]
    ELSE [error |-> "pass", param |-> ""]

(***************************************************************************)
(* Handlers that each break one rule of the accessors.  The properties at  *)
(* the end of the module are checked against them as well: a property that *)
(* still holds of the broken handler does not depend on the rule.          *)
(***************************************************************************)
\* A readFile that reads the disk on every call, whatever the cache holds.
readFileAlwaysDisk(filename) ==
    IF ~IsString(filename) THEN Refuse(Threw("TypeError"))
    ELSE LET resolvedFilename == PathResolve(<< dataDir, filename >>)
         IN  IF ~Contained(resolvedFilename) THEN Refuse(Threw("RangeError"))
             ELSE LET r == FsReadFile(fs, resolvedFilename)
                      calls == << FsCall("readFile", << resolvedFilename >>) >>
                  IN  IF r.err # "" THEN {End(FsThrew(r.err), calls, cache, fs)}
                      ELSE {End(Returned(r.data), calls, c2, fs) :
                              c2 \in CacheSet(cache, resolvedFilename, r.data)}

\* A readFile that does not store what it read.
readFileNoStore(filename) ==
    IF ~IsString(filename) THEN Refuse(Threw("TypeError"))
    ELSE LET resolvedFilename == PathResolve(<< dataDir, filename >>)
         IN  IF ~Contained(resolvedFilename) THEN Refuse(Threw("RangeError"))
             ELSE IF CacheHas(cache, resolvedFilename)
                  THEN Refuse(Returned(CacheGet(cache, resolvedFilename)))
             ELSE LET r == FsReadFile(fs, resolvedFilename)
                      calls == << FsCall("readFile", << resolvedFilename >>) >>
                  IN  IF r.err # "" THEN {End(FsThrew(r.err), calls, cache, fs)}
                      ELSE {End(Returned(r.data), calls, cache, fs)}

\* A writeFile that leaves the cache as it was.
writeFileKeepCache(filename, data) ==
    IF ~IsString(filename) THEN Refuse(Threw("TypeError"))
    ELSE IF ~IsBuffer(data) THEN Refuse(Threw("TypeError"))
    ELSE LET resolvedFilename == PathResolve(<< dataDir, filename >>)
         IN  IF ~Contained(resolvedFilename) THEN Refuse(Threw("RangeError"))
             ELSE LET r == FsWriteFile(fs, resolvedFilename, data)
                      calls == << FsCall("writeFile", << resolvedFilename >>) >>
                  IN  IF r.err # "" THEN {End(FsThrew(r.err), calls, cache, fs)}
                      ELSE {End(Returned(<< >>), calls, cache, r.fs)}

\* A rename that moves the cache entry first, whether or not the rename on
\* disk then succeeds.
renameCacheFirst(oldPathname, newPathname) ==
    LET g == TwoPathGuard(oldPathname, newPathname)
    IN  IF g.error # "pass" THEN Refuse(ThrewFor(g.error, g.param))
        ELSE LET resolvedOldPathname == PathResolve(<< dataDir, oldPathname >>)
                 resolvedNewPathname == PathResolve(<< dataDir, newPathname >>)
                 moved == IF CacheHas(cache, resolvedOldPathname)
                          THEN CacheRename(cache, resolvedOldPathname, resolvedNewPathname)
                          ELSE cache
                 r == FsRename(fs, resolvedOldPathname, resolvedNewPathname)
                 calls == << FsCall("rename", << resolvedOldPathname,
                                                 resolvedNewPathname >>) >>
             IN  IF r.err # "" THEN {End(FsThrew(r.err), calls, moved, fs)}
                 ELSE {End(Returned(<< >>), calls, moved, r.fs)}

\* A rename that takes no cache action.
renameKeepCache(oldPathname, newPathname) ==
    LET g == TwoPathGuard(oldPathname, newPathname)
    IN  IF g.error # "pass" THEN Refuse(ThrewFor(g.error, g.param))
        ELSE LET resolvedOldPathname == PathResolve(<< dataDir, oldPathname >>)
                 resolvedNewPathname == PathResolve(<< dataDir, newPathname >>)
                 r == FsRename(fs, resolvedOldPathname, resolvedNewPathname)
                 calls == << FsCall("rename", << resolvedOldPathname,
                                                 resolvedNewPathname >>) >>
             IN  IF r.err # "" THEN {End(FsThrew(r.err), calls, cache, fs)}
                 ELSE {End(Returned(<< >>), calls, cache, r.fs)}

\* A writeFile that sets the cache entry only when the cache holds one.
writeFileUpdateOnly(filename, data) ==
    IF ~IsString(filename) THEN Refuse(Threw("TypeError"))
    ELSE IF ~IsBuffer(data) THEN Refuse(Threw("TypeError"))
    ELSE LET resolvedFilename == PathResolve(<< dataDir, filename >>)
         IN  IF ~Contained(resolvedFilename) THEN Refuse(Threw("RangeError"))
             ELSE LET r == FsWriteFile(fs, resolvedFilename, data)
                      calls == << FsCall("writeFile", << resolvedFilename >>) >>
                  IN  IF r.err # "" THEN {End(FsThrew(r.err), calls, cache, fs)}
                      ELSE IF ~CacheHas(cache, resolvedFilename)
                           THEN {End(Returned(<< >>), calls, cache, r.fs)}
                      ELSE {End(Returned(<< >>), calls, c2, r.fs) :
                              c2 \in CacheSet(cache, resolvedFilename, data)}

\* A writeFile that checks the containment of its path before the kind of
\* its data.
writeFileGuardFirst(filename, data) ==
    IF ~IsString(filename) THEN Refuse(Threw("TypeError"))
    ELSE LET resolvedFilename == PathResolve(<< dataDir, filename >>)
         IN  IF ~Contained(resolvedFilename) THEN Refuse(Threw("RangeError"))
             ELSE IF ~IsBuffer(data) THEN Refuse(Threw("TypeError"))
             ELSE LET r == FsWriteFile(fs, resolvedFilename, data)
                      calls == << FsCall("writeFile", << resolvedFilename >>) >>
                  IN  IF r.err # "" THEN {End(FsThrew(r.err), calls, cache, fs)}
                      ELSE {End(Returned(<< >>), calls, c2, r.fs) :
                              c2 \in CacheSet(cache, resolvedFilename, data)}

\* A writeFile that calls its primitive once more when it has failed.
writeFileRetry(filename, data) ==
    IF ~IsString(filename) THEN Refuse(Threw("TypeError"))
    ELSE IF ~IsBuffer(data) THEN Refuse(Threw("TypeError"))
    ELSE LET resolvedFilename == PathResolve(<< dataDir, filename >>)
         IN  IF ~Contained(resolvedFilename) THEN Refuse(Threw("RangeError"))
             ELSE LET r == FsWriteFile(fs, resolvedFilename, data)
                      call == FsCall("writeFile", << resolvedFilename >>)
                  IN  IF r.err # "" THEN {End(FsThrew(r.err), << call, call >>, cache, fs)}
                      ELSE {End(Returned(<< >>), << call >>, c2, r.fs) :
                              c2 \in CacheSet(cache, resolvedFilename, data)}

\* A createDir that makes the last directory only (mkdir without recursive).
createDirShallow(dirname) ==
    IF ~IsString(dirname) THEN Refuse(Threw("TypeError"))
    ELSE LET resolvedDirectory == PathResolve(<< dataDir, dirname >>)
         IN  IF ~Contained(resolvedDirectory) THEN Refuse(Threw("RangeError"))
             ELSE LET calls == << FsCall("mkdir", << resolvedDirectory >>) >>
                      r == FsMkdir(fs, resolvedDirectory)
                  IN  IF Exists(fs.names, resolvedDirectory)
                      THEN {End(FsThrew("EEXIST"), calls, cache, fs)}
                      ELSE IF ~Exists(fs.names, Parent(resolvedDirectory))
                      THEN {End(FsThrew("ENOENT"), calls, cache, fs)}
                      ELSE {End(IF r.err # "" THEN FsThrew(r.err) ELSE Returned(<< >>),
                                calls, cache, r.fs)}

\* An info that answers from the cache for a path the cache holds.
infoFromCache(pathname) ==
    IF ~IsString(pathname) THEN Refuse(ThrewFor("TypeError", "pathname"))
    ELSE LET resolvedPathname == PathResolve(<< dataDir, pathname >>)
         IN  IF ~Contained(resolvedPathname)
             THEN Refuse(ThrewFor("RangeError", "pathname"))
             ELSE IF CacheHas(cache, resolvedPathname) THEN Refuse(ReturnedKind("file"))
             ELSE LET r == FsLstat(fs, resolvedPathname)
                      calls == << FsCall("lstat", << resolvedPathname >>) >>
                  IN  {End(IF r.err # "" THEN FsThrew(r.err) ELSE ReturnedKind(r.kind),
                           calls, cache, fs)}

\* A readFile that joins every path to the data directory.
readFileJoined(filename) ==
    IF ~IsString(filename) THEN Refuse(Threw("TypeError"))
    ELSE LET resolvedFilename ==
                 PathOf(NormalizeSegs(Split(dataDir \o << Sep >> \o filename), << >>))
         IN  IF ~Contained(resolvedFilename) THEN Refuse(Threw("RangeError"))
             ELSE IF CacheHas(cache, resolvedFilename)
                  THEN Refuse(Returned(CacheGet(cache, resolvedFilename)))
             ELSE LET r == FsReadFile(fs, resolvedFilename)
                      calls == << FsCall("readFile", << resolvedFilename >>) >>
                  IN  IF r.err # "" THEN {End(FsThrew(r.err), calls, cache, fs)}
                      ELSE {End(Returned(r.data), calls, c2, fs) :
                              c2 \in CacheSet(cache, resolvedFilename, r.data)}

\* A copyFile that stores the bytes copied under the key of the destination.
copyFileCaching(sourcePathname, destinationPathname) ==
    LET g == TwoPathGuard(sourcePathname, destinationPathname)
    IN  IF g.error # "pass" THEN Refuse(ThrewFor(g.error, g.param))
        ELSE LET resolvedSourcePathname == PathResolve(<< dataDir, sourcePathname >>)
                 resolvedDestinationPathname == PathResolve(<< dataDir, destinationPathname >>)
                 r == FsCopyFile(fs, resolvedSourcePathname, resolvedDestinationPathname)
                 calls == << FsCall("copyFile", << resolvedSourcePathname,
                                                   resolvedDestinationPathname >>) >>
                 got == FsReadFile(r.fs, resolvedDestinationPathname)
             IN  IF r.err # "" \/ got.err # "" THEN {End(FsThrew(r.err), calls, cache, r.fs)}
                 ELSE {End(Returned(<< >>), calls, c2, r.fs) :
                         c2 \in CacheSet(cache, resolvedDestinationPathname, got.data)}

\* A result-wrapping readFile that does not store what it read.
readFileResultNoStore(filename) ==
    IF ~IsString(filename) THEN Refuse(Threw("TypeError"))
    ELSE LET resolvedFilename == PathResolve(<< dataDir, filename >>)
         IN  IF ~Contained(resolvedFilename) THEN Refuse(ResultE(""))
             ELSE IF CacheHas(cache, resolvedFilename)
                  THEN Refuse(ResultOK(CacheGet(cache, resolvedFilename)))
             ELSE LET r == FsReadFile(fs, resolvedFilename)
                      calls == << FsCall("readFile", << resolvedFilename >>) >>
                  IN  IF r.err # "" THEN {End(ResultE(r.err), calls, cache, fs)}
                      ELSE {End(ResultOK(r.data), calls, cache, fs)}

(***************************************************************************)
(* ReadOnly (exception-raising accessors).  Each operator gives the ways   *)
(* the call may end in the current state.                                  *)
(***************************************************************************)
readFile(filename) ==
    IF ~IsString(filename) THEN Refuse(Threw("TypeError"))
    ELSE LET resolvedFilename == PathResolve(<< dataDir, filename >>)
         IN  IF ~Contained(resolvedFilename) THEN Refuse(Threw("RangeError"))
             ELSE IF CacheHas(cache, resolvedFilename)
                  THEN Refuse(Returned(CacheGet(cache, resolvedFilename)))
             ELSE LET r == FsReadFile(fs, resolvedFilename)
                      calls == << FsCall("readFile", << resolvedFilename >>) >>
                  IN  IF r.err # "" THEN {End(FsThrew(r.err), calls, cache, fs)}
                      ELSE {End(Returned(r.data), calls, c2, fs) :
                              c2 \in CacheSet(cache, resolvedFilename, r.data)}

\* The same statements without the await.
readFileSync(filename) == readFile(filename)

readDir(dirname) ==
    IF ~IsString(dirname) THEN Refuse(Threw("TypeError"))
    ELSE LET resolvedDirname == PathResolve(<< dataDir, dirname >>)
         IN  IF ~Contained(resolvedDirname) THEN Refuse(Threw("RangeError"))
             ELSE LET r == FsReaddir(fs, resolvedDirname)
                      calls == << FsCall("readdir", << resolvedDirname >>) >>
                  IN  {End(IF r.err # "" THEN FsThrew(r.err) ELSE ReturnedNames(r.names),
                           calls, cache, fs)}

readDirSync(dirname) == readDir(dirname)

\* The messages of its two errors name the parameter: 'Expected pathname to
\* be a String', 'Expected pathname to be inside the Data Directory'.
info(pathname) ==
    IF ~IsString(pathname) THEN Refuse(ThrewFor("TypeError", "pathname"))
    ELSE LET resolvedPathname == PathResolve(<< dataDir, pathname >>)
         IN  IF ~Contained(resolvedPathname)
             THEN Refuse(ThrewFor("RangeError", "pathname"))
             ELSE LET r == FsLstat(fs, resolvedPathname)
                      calls == << FsCall("lstat", << resolvedPathname >>) >>
                  IN  {End(IF r.err # "" THEN FsThrew(r.err) ELSE ReturnedKind(r.kind),
                           calls, cache, fs)}

infoSync(pathname) == info(pathname)

resolvePath(pathname) ==
    IF ~IsString(pathname) THEN Refuse(Threw("TypeError"))
    ELSE LET resolvedEntry == PathResolve(<< dataDir, pathname >>)
         IN  IF ~Contained(resolvedEntry) THEN Refuse(Threw("RangeError"))
             ELSE LET r == FsRealpath(fs, resolvedEntry)
                      calls == << FsCall("realpath", << resolvedEntry >>) >>
                  IN  IF r.err # "" THEN {End(FsThrew(r.err), calls, cache, fs)}
                      ELSE IF ~Contained(r.path)
                           THEN {End(Threw("RangeError"), calls, cache, fs)}
                      ELSE {End(Returned(r.path), calls, cache, fs)}

resolvePathSync(entry) == resolvePath(entry)

(***************************************************************************)
(* ReadOnly (result-wrapping accessors).                                   *)
(***************************************************************************)
readFileResult(filename) ==
    IF ~IsString(filename) THEN Refuse(Threw("TypeError"))
    ELSE LET resolvedFilename == PathResolve(<< dataDir, filename >>)
         IN  IF ~Contained(resolvedFilename) THEN Refuse(ResultE(""))
             ELSE IF CacheHas(cache, resolvedFilename)
                  THEN Refuse(ResultOK(CacheGet(cache, resolvedFilename)))
             ELSE LET r == FsReadFile(fs, resolvedFilename)
                      calls == << FsCall("readFile", << resolvedFilename >>) >>
                  IN  IF r.err # "" THEN {End(ResultE(r.err), calls, cache, fs)}
                      ELSE {End(ResultOK(r.data), calls, c2, fs) :
                              c2 \in CacheSet(cache, resolvedFilename, r.data)}

readFileSyncResult(filename) == readFileResult(filename)

readDirResult(dirname) ==
    IF ~IsString(dirname) THEN Refuse(Threw("TypeError"))
    ELSE LET resolvedDirname == PathResolve(<< dataDir, dirname >>)
         IN  IF ~Contained(resolvedDirname) THEN Refuse(ResultE(""))
             ELSE LET r == FsReaddir(fs, resolvedDirname)
                      calls == << FsCall("readdir", << resolvedDirname >>) >>
                  IN  {End(IF r.err # "" THEN ResultE(r.err) ELSE ResultOKNames(r.names),
                           calls, cache, fs)}

readDirSyncResult(dirname) == readDirResult(dirname)

\* lstat, then stat.isFile() / isDirectory() / isSymbolicLink(): whether the
\* entry is of the kind asked for.  With fromCache (isFile) a key the cache
\* holds is answered true without the lstat.  With noEntryIsFalse (the Sync
\* forms, which pass { throwIfNoEntry: false }) no entry gives false.
IsKind(name, kind, fromCache, noEntryIsFalse) ==
    IF ~IsString(name) THEN Refuse(Threw("TypeError"))
    ELSE LET resolvedName == PathResolve(<< dataDir, name >>)
         IN  IF ~Contained(resolvedName) THEN Refuse(ResultE(""))
             ELSE IF fromCache /\ CacheHas(cache, resolvedName)
                  THEN Refuse(ResultOKFlag(TRUE))
             ELSE LET r == FsLstat(fs, resolvedName)
                      calls == << FsCall("lstat", << resolvedName >>) >>
                  IN  {End(IF r.err = "" THEN ResultOKFlag(r.kind = kind)
                           ELSE IF noEntryIsFalse /\ r.err = "ENOENT"
                                THEN ResultOKFlag(FALSE)
                           ELSE ResultE(r.err),
                           calls, cache, fs)}

isFile(filename) == IsKind(filename, "file", TRUE, FALSE)
isFileSync(filename) == IsKind(filename, "file", TRUE, TRUE)
isDir(dirname) == IsKind(dirname, "dir", FALSE, FALSE)
isDirSync(dirname) == IsKind(dirname, "dir", FALSE, TRUE)
isSymLink(linkname) == IsKind(linkname, "symlink", FALSE, FALSE)
isSymLinkSync(linkname) == IsKind(linkname, "symlink", FALSE, TRUE)

(***************************************************************************)
(* ReadWrite.                                                              *)
(***************************************************************************)
writeFile(filename, data) ==
    IF ~IsString(filename) THEN Refuse(Threw("TypeError"))
    ELSE IF ~IsBuffer(data) THEN Refuse(Threw("TypeError"))
    ELSE LET resolvedFilename == PathResolve(<< dataDir, filename >>)
         IN  IF ~Contained(resolvedFilename) THEN Refuse(Threw("RangeError"))
             ELSE LET r == FsWriteFile(fs, resolvedFilename, data)
                      calls == << FsCall("writeFile", << resolvedFilename >>) >>
                  IN  IF r.err # "" THEN {End(FsThrew(r.err), calls, cache, fs)}
                      ELSE {End(Returned(<< >>), calls, c2, r.fs) :
                              c2 \in CacheSet(cache, resolvedFilename, data)}

writeFileSync(filename, data) == writeFile(filename, data)

createDir(dirname) ==
    IF ~IsString(dirname) THEN Refuse(Threw("TypeError"))
    ELSE LET resolvedDirectory == PathResolve(<< dataDir, dirname >>)
         IN  IF ~Contained(resolvedDirectory) THEN Refuse(Threw("RangeError"))
             ELSE LET r == FsMkdir(fs, resolvedDirectory)
                      calls == << FsCall("mkdir", << resolvedDirectory >>) >>
                  IN  {End(IF r.err # "" THEN FsThrew(r.err) ELSE Returned(<< >>),
                           calls, cache, r.fs)}

createDirSync(dirname) == createDir(dirname)

createSymLink(sourcePathname, destinationPathname) ==
    LET g == TwoPathGuard(sourcePathname, destinationPathname)
    IN  IF g.error # "pass" THEN Refuse(ThrewFor(g.error, g.param))
        ELSE LET resolvedSourcePathname == PathResolve(<< dataDir, sourcePathname >>)
                 resolvedDestinationPathname == PathResolve(<< dataDir, destinationPathname >>)
                 r == FsSymlink(fs, resolvedSourcePathname, resolvedDestinationPathname)
                 calls == << FsCall("symlink", << resolvedSourcePathname,
                                                  resolvedDestinationPathname >>) >>
             IN  {End(IF r.err # "" THEN FsThrew(r.err) ELSE Returned(<< >>),
                      calls, cache, r.fs)}

createSymLinkSync(sourcePathname, destinationPathname) ==
    createSymLink(sourcePathname, destinationPathname)

createHardLink(sourcePathname, destinationPathname) ==
    LET g == TwoPathGuard(sourcePathname, destinationPathname)
    IN  IF g.error # "pass" THEN Refuse(ThrewFor(g.error, g.param))
        ELSE LET resolvedSourcePathname == PathResolve(<< dataDir, sourcePathname >>)
                 resolvedDestinationPathname == PathResolve(<< dataDir, destinationPathname >>)
                 r == FsLink(fs, resolvedSourcePathname, resolvedDestinationPathname)
                 calls == << FsCall("link", << resolvedSourcePathname,
                                               resolvedDestinationPathname >>) >>
             IN  {End(IF r.err # "" THEN FsThrew(r.err) ELSE Returned(<< >>),
                      calls, cache, r.fs)}

createHardLinkSync(sourcePathname, destinationPathname) ==
    createHardLink(sourcePathname, destinationPathname)

\* The class body defines copyFile twice; the second definition, the
\* synchronous one, replaces the first and is the method of the class.
copyFile(sourcePathname, destinationPathname) ==
    LET g == TwoPathGuard(sourcePathname, destinationPathname)
    IN  IF g.error # "pass" THEN Refuse(ThrewFor(g.error, g.param))
        ELSE LET resolvedSourcePathname == PathResolve(<< dataDir, sourcePathname >>)
                 resolvedDestinationPathname == PathResolve(<< dataDir, destinationPathname >>)
                 r == FsCopyFile(fs, resolvedSourcePathname, resolvedDestinationPathname)
                 calls == << FsCall("copyFile", << resolvedSourcePathname,
                                                   resolvedDestinationPathname >>) >>
             IN  {End(IF r.err # "" THEN FsThrew(r.err) ELSE Returned(<< >>),
                      calls, cache, r.fs)}

\* rename: the cache entry moves when the cache holds the old key.
rename(oldPathname, newPathname) ==
    LET g == TwoPathGuard(oldPathname, newPathname)
    IN  IF g.error # "pass" THEN Refuse(ThrewFor(g.error, g.param))
        ELSE LET resolvedOldPathname == PathResolve(<< dataDir, oldPathname >>)
                 resolvedNewPathname == PathResolve(<< dataDir, newPathname >>)
                 r == FsRename(fs, resolvedOldPathname, resolvedNewPathname)
                 calls == << FsCall("rename", << resolvedOldPathname,
                                                 resolvedNewPathname >>) >>
             IN  IF r.err # "" THEN {End(FsThrew(r.err), calls, cache, fs)}
                 ELSE IF CacheHas(cache, resolvedOldPathname)
                      THEN {End(Returned(<< >>), calls,
                                CacheRename(cache, resolvedOldPathname, resolvedNewPathname),
                                r.fs)}
                 ELSE {End(Returned(<< >>), calls, cache, r.fs)}

\* renameSync: cache.rename is called whether or not the cache holds the old
\* key.  What the cache does with a key it does not hold is its own matter:
\* it may do nothing, or throw after the rename on disk.
renameSync(oldPathname, newPathname) ==
    LET g == TwoPathGuard(oldPathname, newPathname)
    IN  IF g.error # "pass" THEN Refuse(ThrewFor(g.error, g.param))
        ELSE LET resolvedOldPathname == PathResolve(<< dataDir, oldPathname >>)
                 resolvedNewPathname == PathResolve(<< dataDir, newPathname >>)
                 r == FsRename(fs, resolvedOldPathname, resolvedNewPathname)
                 calls == << FsCall("rename", << resolvedOldPathname,
                                                 resolvedNewPathname >>) >>
             IN  IF r.err # "" THEN {End(FsThrew(r.err), calls, cache, fs)}
                 ELSE IF CacheHas(cache, resolvedOldPathname)
                      THEN {End(Returned(<< >>), calls,
                                CacheRename(cache, resolvedOldPathname, resolvedNewPathname),
                                r.fs)}
                 ELSE {End(Returned(<< >>), calls, cache, r.fs),
                       End(Threw("CacheError"), calls, cache, r.fs)}

\* delete: after the type check the path is resolved with
\* pathname.resolve(this.dataDir, pathname), a call of a method strings do
\* not have: it throws a TypeError and nothing after it runs.
delete(pathname) ==
    IF ~IsString(pathname) THEN Refuse(Threw("TypeError"))
    ELSE Refuse(Threw("TypeError"))

deleteSync(pathname) == delete(pathname)

(***************************************************************************)
(* The caller.                                                             *)
(***************************************************************************)
\* The caller may make a call: it has taken the outcome of the one before.
CanCall == last = Idle /\ nOps < MaxOps /\ tasks = << >>

\* The caller calls op(a, b, buf), which ends in one of the ways in ends.
Call(op, a, b, buf, ends) ==
    \E e \in ends :
        /\ last' = [op |-> op, a |-> a, b |-> b, buf |-> buf,
                    outcome |-> e.res.outcome, code |-> e.res.code, data |-> e.res.data,
                    names |-> e.res.names, kind |-> e.res.kind, param |-> e.res.param,
                    calls |-> e.calls,
                    before |-> cache, diskBefore |-> fs]
        /\ cache' = e.cache
        /\ fs' = e.fs
        /\ nOps' = nOps + 1
        /\ UNCHANGED << dataDir, tasks >>

ReadFile == CanCall /\ \E f \in PathArgs : Call("readFile", f, NoArg, NoArg, readFile(f))
ReadFileSync == CanCall /\ \E f \in PathArgs : Call("readFileSync", f, NoArg, NoArg, readFileSync(f))
ReadDir == CanCall /\ \E d \in PathArgs : Call("readDir", d, NoArg, NoArg, readDir(d))
ReadDirSync == CanCall /\ \E d \in PathArgs : Call("readDirSync", d, NoArg, NoArg, readDirSync(d))
Info == CanCall /\ \E p \in PathArgs : Call("info", p, NoArg, NoArg, info(p))
InfoSync == CanCall /\ \E p \in PathArgs : Call("infoSync", p, NoArg, NoArg, infoSync(p))
ResolvePath == CanCall /\ \E p \in PathArgs : Call("resolvePath", p, NoArg, NoArg, resolvePath(p))
ResolvePathSync ==
    CanCall /\ \E p \in PathArgs : Call("resolvePathSync", p, NoArg, NoArg, resolvePathSync(p))

ReadFileResult ==
    CanCall /\ \E f \in PathArgs : Call("Result.readFile", f, NoArg, NoArg, readFileResult(f))
ReadFileSyncResult ==
    CanCall /\ \E f \in PathArgs :
        Call("Result.readFileSync", f, NoArg, NoArg, readFileSyncResult(f))
ReadDirResult ==
    CanCall /\ \E d \in PathArgs : Call("Result.readDir", d, NoArg, NoArg, readDirResult(d))
ReadDirSyncResult ==
    CanCall /\ \E d \in PathArgs :
        Call("Result.readDirSync", d, NoArg, NoArg, readDirSyncResult(d))
IsFile == CanCall /\ \E f \in PathArgs : Call("isFile", f, NoArg, NoArg, isFile(f))
IsFileSync == CanCall /\ \E f \in PathArgs : Call("isFileSync", f, NoArg, NoArg, isFileSync(f))
IsDir == CanCall /\ \E d \in PathArgs : Call("isDir", d, NoArg, NoArg, isDir(d))
IsDirSync == CanCall /\ \E d \in PathArgs : Call("isDirSync", d, NoArg, NoArg, isDirSync(d))
IsSymLink == CanCall /\ \E l \in PathArgs : Call("isSymLink", l, NoArg, NoArg, isSymLink(l))
IsSymLinkSync ==
    CanCall /\ \E l \in PathArgs : Call("isSymLinkSync", l, NoArg, NoArg, isSymLinkSync(l))

WriteFile ==
    CanCall /\ \E f \in PathArgs, data \in DataArgs :
        Call("writeFile", f, NoArg, data, writeFile(f, data))
WriteFileSync ==
    CanCall /\ \E f \in PathArgs, data \in DataArgs :
        Call("writeFileSync", f, NoArg, data, writeFileSync(f, data))
CreateDir == CanCall /\ \E d \in PathArgs : Call("createDir", d, NoArg, NoArg, createDir(d))
CreateDirSync ==
    CanCall /\ \E d \in PathArgs : Call("createDirSync", d, NoArg, NoArg, createDirSync(d))
CreateSymLink ==
    CanCall /\ \E s \in PathArgs, d \in PathArgs :
        Call("createSymLink", s, d, NoArg, createSymLink(s, d))
CreateSymLinkSync ==
    CanCall /\ \E s \in PathArgs, d \in PathArgs :
        Call("createSymLinkSync", s, d, NoArg, createSymLinkSync(s, d))
CreateHardLink ==
    CanCall /\ \E s \in PathArgs, d \in PathArgs :
        Call("createHardLink", s, d, NoArg, createHardLink(s, d))
CreateHardLinkSync ==
    CanCall /\ \E s \in PathArgs, d \in PathArgs :
        Call("createHardLinkSync", s, d, NoArg, createHardLinkSync(s, d))
Rename ==
    CanCall /\ \E o \in PathArgs, n \in PathArgs : Call("rename", o, n, NoArg, rename(o, n))
RenameSync ==
    CanCall /\ \E o \in PathArgs, n \in PathArgs :
        Call("renameSync", o, n, NoArg, renameSync(o, n))
CopyFile ==
    CanCall /\ \E s \in PathArgs, d \in PathArgs : Call("copyFile", s, d, NoArg, copyFile(s, d))
Delete == CanCall /\ \E p \in PathArgs : Call("delete", p, NoArg, NoArg, delete(p))
DeleteSync == CanCall /\ \E p \in PathArgs : Call("deleteSync", p, NoArg, NoArg, deleteSync(p))

\* The caller takes the outcome of its call and goes on.
Continue ==
    /\ last # Idle
    /\ last' = Idle
    /\ UNCHANGED << dataDir, cache, fs, nOps, tasks >>

Next ==
    \/ ReadFile \/ ReadFileSync \/ ReadDir \/ ReadDirSync
    \/ Info \/ InfoSync \/ ResolvePath \/ ResolvePathSync
    \/ ReadFileResult \/ ReadFileSyncResult \/ ReadDirResult \/ ReadDirSyncResult
    \/ IsFile \/ IsFileSync \/ IsDir \/ IsDirSync \/ IsSymLink \/ IsSymLinkSync
    \/ WriteFile \/ WriteFileSync \/ CreateDir \/ CreateDirSync
    \/ CreateSymLink \/ CreateSymLinkSync \/ CreateHardLink \/ CreateHardLinkSync
    \/ Rename \/ RenameSync \/ CopyFile \/ Delete \/ DeleteSync
    \/ Continue

Spec == Init /\ [][Next]_vars

(***************************************************************************)
(* Asynchronous calls that overlap.  An async handler runs up to its await *)
(* when it is called; the filesystem then performs the primitive it awaits *)
(* at some time, as one step; the handler runs on from its await at some   *)
(* later time.  Steps of other calls may come in between.                  *)
(***************************************************************************)
\* The paths given to the overlapping calls.
AsyncPaths == { << "a" >>, << ".", "." >> }

\* The call has not ended yet.
Pending == Outcome("pending", "", << >>, {}, "")

\* The call ended with res before any await.
Settled(res) == [phase |-> "done", res |-> res, key |-> << >>]
\* The call is suspended at the await of its filesystem primitive on key.
Awaiting(key) == [phase |-> "io", res |-> Pending, key |-> key]

\* readFile up to the await of fs.promises.readFile
readFileBegin(filename) ==
    IF ~IsString(filename) THEN Settled(Threw("TypeError"))
    ELSE LET resolvedFilename == PathResolve(<< dataDir, filename >>)
         IN  IF ~Contained(resolvedFilename) THEN Settled(Threw("RangeError"))
             ELSE IF CacheHas(cache, resolvedFilename)
                  THEN Settled(Returned(CacheGet(cache, resolvedFilename)))
             ELSE Awaiting(resolvedFilename)

\* readFile (Result) up to the promise of fs.promises.readFile
readFileResultBegin(filename) ==
    IF ~IsString(filename) THEN Settled(Threw("TypeError"))
    ELSE LET resolvedFilename == PathResolve(<< dataDir, filename >>)
         IN  IF ~Contained(resolvedFilename) THEN Settled(ResultE(""))
             ELSE IF CacheHas(cache, resolvedFilename)
                  THEN Settled(ResultOK(CacheGet(cache, resolvedFilename)))
             ELSE Awaiting(resolvedFilename)

\* writeFile up to the await of fs.promises.writeFile
writeFileBegin(filename, data) ==
    IF ~IsString(filename) THEN Settled(Threw("TypeError"))
    ELSE IF ~IsBuffer(data) THEN Settled(Threw("TypeError"))
    ELSE LET resolvedFilename == PathResolve(<< dataDir, filename >>)
         IN  IF ~Contained(resolvedFilename) THEN Settled(Threw("RangeError"))
             ELSE Awaiting(resolvedFilename)

\* delete: it throws at pathname.resolve, before its await.
deleteBegin(pathname) ==
    IF ~IsString(pathname) THEN Settled(Threw("TypeError"))
    ELSE Settled(Threw("TypeError"))

\* A readFile that, running on from its await, does not store what was read.
readFileResumeNoStore(t) ==
    IF t.err # "" THEN {[res |-> FsThrew(t.err), cache |-> cache]}
    ELSE {[res |-> Returned(t.data), cache |-> cache]}

\* readFile from its await on: t is the call, with the error or the bytes of
\* the primitive.  The ways it may end: its outcome and the cache it leaves.
readFileResume(t) ==
    IF t.err # "" THEN {[res |-> FsThrew(t.err), cache |-> cache]}
    ELSE {[res |-> Returned(t.data), cache |-> c2] : c2 \in CacheSet(cache, t.key, t.data)}

\* readFile (Result): the .then and the .catch of the promise
readFileResultResume(t) ==
    IF t.err # "" THEN {[res |-> ResultE(t.err), cache |-> cache]}
    ELSE {[res |-> ResultOK(t.data), cache |-> c2] : c2 \in CacheSet(cache, t.key, t.data)}

\* writeFile from its await on
writeFileResume(t) ==
    IF t.err # "" THEN {[res |-> FsThrew(t.err), cache |-> cache]}
    ELSE {[res |-> Returned(<< >>), cache |-> c2] : c2 \in CacheSet(cache, t.key, t.buf)}

\* The number of calls that have ended.
NumDone == Cardinality({i \in DOMAIN tasks : tasks[i].phase = "done"})

\* The caller makes the call op(a, buf), which runs up to its await as begun
\* says.  doneAtStart is the number of calls that had ended before.
Start(op, a, buf, begun) ==
    /\ tasks' = Append(tasks, [op |-> op, a |-> a, buf |-> buf, key |-> begun.key,
                               phase |-> begun.phase, res |-> begun.res,
                               err |-> "", data |-> << >>, doneAtStart |-> NumDone])
    /\ UNCHANGED << dataDir, cache, fs, last, nOps >>

CanStart == last = Idle /\ nOps = 0 /\ Len(tasks) < MaxCalls

StartReadFile ==
    CanStart /\ \E f \in AsyncPaths : Start("readFile", f, NoArg, readFileBegin(f))
StartReadFileResult ==
    CanStart /\ \E f \in AsyncPaths :
        Start("Result.readFile", f, NoArg, readFileResultBegin(f))
StartWriteFile ==
    CanStart /\ \E f \in AsyncPaths, data \in Buffers :
        Start("writeFile", f, data, writeFileBegin(f, data))
StartDelete ==
    CanStart /\ \E p \in AsyncPaths : Start("delete", p, NoArg, deleteBegin(p))

\* The filesystem performs fs.promises.readFile for a call that awaits it.
PerformReadFile ==
    \E i \in DOMAIN tasks :
        /\ tasks[i].phase = "io"
        /\ tasks[i].op \in {"readFile", "Result.readFile"}
        /\ LET r == FsReadFile(fs, tasks[i].key)
           IN  tasks' = [tasks EXCEPT ![i].phase = "resume", ![i].err = r.err,
                                      ![i].data = r.data]
        /\ UNCHANGED << dataDir, cache, fs, last, nOps >>

\* The filesystem performs fs.promises.writeFile for a call that awaits it.
PerformWriteFile ==
    \E i \in DOMAIN tasks :
        /\ tasks[i].phase = "io"
        /\ tasks[i].op = "writeFile"
        /\ LET r == FsWriteFile(fs, tasks[i].key, tasks[i].buf)
           IN  /\ tasks' = [tasks EXCEPT ![i].phase = "resume", ![i].err = r.err]
               /\ fs' = r.fs
        /\ UNCHANGED << dataDir, cache, last, nOps >>

\* The call i, whose primitive has been performed, runs on from its await and
\* ends in one of the ways in ends.
Resume(i, ends) ==
    \E e \in ends :
        /\ tasks' = [tasks EXCEPT ![i].phase = "done", ![i].res = e.res]
        /\ cache' = e.cache
        /\ UNCHANGED << dataDir, fs, last, nOps >>

ResumeReadFile ==
    \E i \in DOMAIN tasks :
        /\ tasks[i].phase = "resume" /\ tasks[i].op = "readFile"
        /\ Resume(i, readFileResume(tasks[i]))
ResumeReadFileResult ==
    \E i \in DOMAIN tasks :
        /\ tasks[i].phase = "resume" /\ tasks[i].op = "Result.readFile"
        /\ Resume(i, readFileResultResume(tasks[i]))
ResumeWriteFile ==
    \E i \in DOMAIN tasks :
        /\ tasks[i].phase = "resume" /\ tasks[i].op = "writeFile"
        /\ Resume(i, writeFileResume(tasks[i]))

NextAsync ==
    \/ StartReadFile \/ StartReadFileResult \/ StartWriteFile \/ StartDelete
    \/ PerformReadFile \/ PerformWriteFile
    \/ ResumeReadFile \/ ResumeReadFileResult \/ ResumeWriteFile

SpecAsync == Init /\ [][NextAsync]_vars

(***************************************************************************)
(* Construction.  The caller constructs an instance with any arguments on  *)
(* any of the disks, again after a construction that threw or on the root  *)
(* an earlier one made, and then calls operations on the instance it got.  *)
(***************************************************************************)
\* Number of operations called on an instance whose construction is looked at.
MaxOpsBuilt == 1

\* The dataDir arguments: the ones of DataDirArgs, an absolute path that is
\* not normalized, and a value that is no string.
ConstructorDataDirArgs == DataDirArgs \cup { << "/", "d", "/" >>, NotAString }

\* Cache instances the caller built itself: an empty one and one in use.
GivenCaches ==
    { NewCache(3),
      [budget |-> 3, store |-> (<< Sep, "d", Sep, "a" >> :> B1)] }

\* The cache arguments: null, none, integers, 0.5, a string, a Cache.
ConstructorCacheArgs ==
    CacheArgs
    \cup { [tag |-> "absent", n |-> 0], [tag |-> "int", n |-> 0],
           [tag |-> "int", n |-> -1], [tag |-> "fraction", n |-> 0],
           [tag |-> "string", n |-> 0] }
    \cup { [tag |-> "cache", c |-> c] : c \in GivenCaches }

\* A disk on which the data directory cannot be made: a file has its name.
Blocked ==
    [names |-> (<< Sep >> :> DirEntry) @@ (<< Sep, "d" >> :> FileEntry(1)),
     data |-> (1 :> B1)]

ConstructorDisks == InitialDisks \cup {Blocked}

\* cache === null, also by the default of the parameter
IsNull(c) == c.tag \in {"null", "absent"}
\* Number.isSafeInteger(cache) && cache >= 0
IsBudget(c) == c.tag = "int" /\ c.n >= 0
\* cache instanceof Cache
IsCache(c) == c.tag = "cache"

\* The way a construction ends: what it throws or the fields of the new
\* instance, and the filesystem it leaves.  A construction that throws gives
\* no instance: the fields are the ones held before.
Built(res, calls, dir, c, fs2) ==
    [res |-> res, calls |-> calls, dataDir |-> dir, cache |-> c, fs |-> fs2]

\* A constructor that makes the directory before it looks at its arguments.
constructorMkdirFirst(dataDirArg, cacheArg) ==
    LET resolvedDataDir ==
            PathResolve(<< IF IsString(dataDirArg) THEN dataDirArg ELSE << >> >>)
        made == FsMkdir(fs, resolvedDataDir)
        call == << FsCall("mkdir", << resolvedDataDir >>) >>
    IN  IF ~IsString(dataDirArg) THEN Built(Threw("TypeError"), call, dataDir, cache, made.fs)
        ELSE IF ~(IsNull(cacheArg) \/ IsBudget(cacheArg) \/ IsCache(cacheArg))
             THEN Built(Threw("TypeError"), call, dataDir, cache, made.fs)
        ELSE IF made.err # "" THEN Built(FsThrew(made.err), call, dataDir, cache, fs)
        ELSE Built(Returned(<< >>), call, resolvedDataDir,
                   IF IsNull(cacheArg) THEN NewCache(0)
                   ELSE IF IsBudget(cacheArg) THEN NewCache(cacheArg.n)
                   ELSE cacheArg.c,
                   made.fs)

\* A constructor that keeps the dataDir argument as it was given.
constructorUnresolved(dataDirArg, cacheArg) ==
    IF ~IsString(dataDirArg) THEN Built(Threw("TypeError"), << >>, dataDir, cache, fs)
    ELSE IF ~(IsNull(cacheArg) \/ IsBudget(cacheArg) \/ IsCache(cacheArg))
         THEN Built(Threw("TypeError"), << >>, dataDir, cache, fs)
    ELSE LET resolvedDataDir == PathResolve(<< dataDirArg >>)
             made == FsMkdir(fs, resolvedDataDir)
             call == << FsCall("mkdir", << resolvedDataDir >>) >>
         IN  IF made.err # "" THEN Built(FsThrew(made.err), call, dataDir, cache, fs)
             ELSE Built(Returned(<< >>), call, dataDirArg,
                        IF IsNull(cacheArg) THEN NewCache(0)
                        ELSE IF IsBudget(cacheArg) THEN NewCache(cacheArg.n)
                        ELSE cacheArg.c,
                        made.fs)

\* A constructor that builds a cache of its own in every case.
constructorOwnCache(dataDirArg, cacheArg) ==
    IF ~IsString(dataDirArg) THEN Built(Threw("TypeError"), << >>, dataDir, cache, fs)
    ELSE IF ~(IsNull(cacheArg) \/ IsBudget(cacheArg) \/ IsCache(cacheArg))
         THEN Built(Threw("TypeError"), << >>, dataDir, cache, fs)
    ELSE LET resolvedDataDir == PathResolve(<< dataDirArg >>)
             made == FsMkdir(fs, resolvedDataDir)
             call == << FsCall("mkdir", << resolvedDataDir >>) >>
         IN  IF made.err # "" THEN Built(FsThrew(made.err), call, dataDir, cache, fs)
             ELSE Built(Returned(<< >>), call, resolvedDataDir,
                        IF IsNull(cacheArg) THEN NewCache(0)
                        ELSE IF IsBudget(cacheArg) THEN NewCache(cacheArg.n)
                        ELSE NewCache(cacheArg.c.budget),
                        made.fs)

\* IO.constructor(dataDir, cache = null)
constructor(dataDirArg, cacheArg) ==
    IF ~IsString(dataDirArg) THEN Built(Threw("TypeError"), << >>, dataDir, cache, fs)
    ELSE IF ~(IsNull(cacheArg) \/ IsBudget(cacheArg) \/ IsCache(cacheArg))
         THEN Built(Threw("TypeError"), << >>, dataDir, cache, fs)
    ELSE LET resolvedDataDir == PathResolve(<< dataDirArg >>)
             made == FsMkdir(fs, resolvedDataDir)
             call == << FsCall("mkdir", << resolvedDataDir >>) >>
         IN  IF made.err # "" THEN Built(FsThrew(made.err), call, dataDir, cache, fs)
             ELSE Built(Returned(<< >>), call, resolvedDataDir,
                        IF IsNull(cacheArg) THEN NewCache(0)
                        ELSE IF IsBudget(cacheArg) THEN NewCache(cacheArg.n)
                        ELSE cacheArg.c,
                        made.fs)

\* No instance yet: the fields hold nothing.
InitConstruct ==
    /\ fs \in ConstructorDisks
    /\ dataDir = NotAString
    /\ cache = NotAString
    /\ last = Idle
    /\ nOps = 0
    /\ tasks = << >>

\* new IO(dataDir, cache), before any operation is called.
Construct ==
    /\ last = Idle /\ nOps = 0 /\ tasks = << >>
    /\ \E dataDirArg \in ConstructorDataDirArgs, cacheArg \in ConstructorCacheArgs :
        LET e == constructor(dataDirArg, cacheArg)
        IN  /\ last' = [op |-> "constructor", a |-> dataDirArg, b |-> NoArg,
                        buf |-> cacheArg,
                        outcome |-> e.res.outcome, code |-> e.res.code,
                        data |-> e.res.data, names |-> e.res.names,
                        kind |-> e.res.kind, param |-> e.res.param,
                        calls |-> e.calls,
                        before |-> cache, diskBefore |-> fs]
            /\ dataDir' = e.dataDir
            /\ cache' = e.cache
            /\ fs' = e.fs
            /\ UNCHANGED << nOps, tasks >>

\* An operation is called on the instance constructed.
Operate == IsString(dataDir) /\ nOps < MaxOpsBuilt /\ Next

NextConstruct == Construct \/ Continue \/ Operate

SpecConstruct == InitConstruct /\ [][NextConstruct]_vars

(***************************************************************************)
(* Properties.                                                             *)
(***************************************************************************)
\* The key of a path argument: the path it resolves to from the data directory.
Key(p) == PathResolve(<< dataDir, p >>)

\* p is the data directory or lies below it: it is the data directory's path,
\* or starts with that path followed by the separator.
InsideRoot(p) == p = dataDir \/ StartsWith(p, dataDir \o << Sep >>)

ReadFileOps == {"readFile", "readFileSync"}
WriteFileOps == {"writeFile", "writeFileSync"}
RenameOps == {"rename", "renameSync"}
DeleteOps == {"delete", "deleteSync"}
MutatingOps == WriteFileOps \cup RenameOps \cup DeleteOps

\* The path arguments of the call just made.
PathsOfLast == {last.a, last.b} \ {NoArg}

\* The call just made went past its guard: it ended neither with a TypeError
\* nor with the guard's error (a RangeError, or Result.E of it).
GuardPassed ==
    /\ last # Idle
    /\ last.outcome \notin {"TypeError", "RangeError"}
    /\ ~(last.outcome = "ResultE" /\ last.code = "")

\* The cache entry of k, if there is one, holds what reading k from the disk gives.
Agrees(k) ==
    CacheHas(cache, k) =>
        LET r == FsReadFile(fs, k) IN r.err = "" /\ r.data = CacheGet(cache, k)

\* C1: a call passes the guard only with paths that resolve to the data
\* directory itself or to a path that starts with the data directory followed
\* by the separator; with any other path the call ends with the guard's error.
C1_GuardAcceptsOnlyInsideRoot ==
    GuardPassed => \A p \in PathsOfLast : InsideRoot(Key(p))

\* C2: every filesystem primitive a call invokes is invoked on paths inside
\* the data directory.
C2_PrimitivesInsideDataDir ==
    \A i \in DOMAIN last.calls :
        \A j \in DOMAIN last.calls[i].paths : InsideRoot(last.calls[i].paths[j])

\* C3: every key the cache holds is a path inside the data directory.
C3_CacheKeysInsideRoot ==
    \A k \in DOMAIN cache.store : InsideRoot(k)

\* C4: after writeFile(p, b) or writeFileSync(p, b) has succeeded, a following
\* readFile(p) returns b and nothing else, whatever the cache held for p before.
C4_ReadAfterWrite ==
    (last.op \in WriteFileOps /\ last.outcome = "ok") =>
        \A e \in readFile(last.a) : e.res = Returned(last.buf)

\* A write has succeeded on a path for which the cache held other bytes, and
\* the cache holds an entry for it afterwards.
C4_Witness ==
    /\ last.op \in WriteFileOps
    /\ last.outcome = "ok"
    /\ CacheHas(last.before, Key(last.a))
    /\ CacheGet(last.before, Key(last.a)) # last.buf
    /\ CacheHas(cache, Key(last.a))

\* C5: a mutating operation leaves the cache as it was when its filesystem
\* primitive fails, and changes the cache only after its primitive has been
\* called and has succeeded.
C5_DiskBeforeCache ==
    last.op \in MutatingOps =>
        /\ (last.outcome = "Error" => Len(last.calls) = 1 /\ cache = last.before)
        /\ (cache # last.before => Len(last.calls) = 1 /\ last.outcome # "Error")

\* A rename whose primitive failed, of a path the cache held an entry for.
C5_Witness ==
    /\ last.op \in RenameOps
    /\ last.outcome = "Error"
    /\ CacheHas(last.before, Key(last.a))
    /\ Key(last.b) # Key(last.a)

\* C6: after a mutating operation has succeeded the cache agrees with the
\* disk on the keys it affected: after a write the entry, if the cache keeps
\* one, is the content on disk; after rename(p, q) with q another path than p
\* there is no entry for p, and the entry of q, if any, is the content on disk
\* at q; after a delete there is no entry.
C6_CacheAgreesWithDisk ==
    /\ (last.op \in WriteFileOps /\ last.outcome = "ok") => Agrees(Key(last.a))
    /\ (last.op \in RenameOps /\ last.outcome = "ok" /\ Key(last.a) # Key(last.b)) =>
           ~CacheHas(cache, Key(last.a)) /\ Agrees(Key(last.b))
    /\ (last.op \in DeleteOps /\ last.outcome = "ok") => ~CacheHas(cache, Key(last.a))

\* The call just made is a readFile or readFileSync that passed the guard,
\* found no entry for its key and got the file from the disk.
ReadMiss ==
    /\ last.op \in ReadFileOps
    /\ last.outcome = "ok"
    /\ ~CacheHas(last.before, Key(last.a))

\* C7 as stated: a readFile or readFileSync that finds no entry for its key
\* reads the file from the disk, stores the bytes under the key, and a
\* following readFile of the path returns the same bytes with no call of the
\* disk.
C7_ReadThrough ==
    ReadMiss =>
        /\ last.calls = << FsCall("readFile", << Key(last.a) >>) >>
        /\ CacheHas(cache, Key(last.a))
        /\ CacheGet(cache, Key(last.a)) = last.data
        /\ \A e \in readFile(last.a) : e.res = Returned(last.data) /\ e.calls = << >>

\* C7 amended: the bytes are stored, and the following readFile makes no call
\* of the disk, when the bytes are no more than the cache's budget; when they
\* are more (always so with a budget of 0) nothing is stored and the following
\* readFile reads the disk again.  Either way it returns the same bytes.
C7_ReadThroughWithinBudget ==
    ReadMiss =>
        /\ last.calls = << FsCall("readFile", << Key(last.a) >>) >>
        /\ last.data = FsReadFile(last.diskBefore, Key(last.a)).data
        /\ \A e \in readFile(last.a) : e.res = Returned(last.data)
        /\ IF Len(last.data) <= cache.budget
           THEN /\ CacheHas(cache, Key(last.a))
                /\ CacheGet(cache, Key(last.a)) = last.data
                /\ \A e \in readFile(last.a) : e.calls = << >>
           ELSE /\ ~CacheHas(cache, Key(last.a))
                /\ \A e \in readFile(last.a) :
                       e.calls = << FsCall("readFile", << Key(last.a) >>) >>

\* A read that missed has stored its bytes in a cache that held another entry.
C7_Witness ==
    /\ ReadMiss
    /\ CacheHas(cache, Key(last.a))
    /\ DOMAIN last.before.store # {}

\* C8: when the cache holds an entry for the key, readFile and readFileSync
\* return the buffer of that entry, call no filesystem primitive, and leave
\* the keys of the cache and their bytes as they were.
C8_CacheHit ==
    (last.op \in ReadFileOps /\ IsString(last.a) /\ CacheHas(last.before, Key(last.a))) =>
        /\ last.outcome = "ok"
        /\ last.data = CacheGet(last.before, Key(last.a))
        /\ last.calls = << >>
        /\ cache = last.before

\* A read of a key the cache held, in a cache holding a second entry too.
C8_Witness ==
    /\ last.op \in ReadFileOps
    /\ IsString(last.a)
    /\ CacheHas(last.before, Key(last.a))
    /\ Cardinality(DOMAIN last.before.store) = 2

\* C9: whenever delete or deleteSync has succeeded, the cache holds no entry
\* for the key of its path.
C9_NoEntryAfterDelete ==
    (last.op \in DeleteOps /\ last.outcome = "ok") => ~CacheHas(cache, Key(last.a))

\* A delete or deleteSync has succeeded.
C9_DeleteSucceeded == last.op \in DeleteOps /\ last.outcome = "ok"

\* C10: delete and deleteSync of a path that resolves inside the data
\* directory to an existing file unlink the file and end without an error;
\* a following readFile of the path fails with ENOENT, and the cache holds no
\* entry for the key.
C10_DeleteExistingFile ==
    (/\ last.op \in DeleteOps
     /\ IsString(last.a)
     /\ InsideRoot(Key(last.a))
     /\ FsLstat(last.diskBefore, Key(last.a)) = [err |-> "", kind |-> "file"]) =>
        /\ last.outcome = "ok"
        /\ last.calls = << FsCall("unlink", << Key(last.a) >>) >>
        /\ ~Exists(fs.names, Key(last.a))
        /\ ~CacheHas(cache, Key(last.a))
        /\ \A e \in readFile(last.a) : e.res = FsThrew("ENOENT")

\* The call just made is a rename or renameSync that succeeded, of a path
\* the cache held an entry for.
RenamedCached ==
    /\ last.op \in RenameOps
    /\ last.outcome = "ok"
    /\ CacheHas(last.before, Key(last.a))

\* p and q are names of one file on disk: they lead to the same entry, or to
\* two hard links of one file.  A rename between them does nothing.
NamesOneFile(disk, p, q) ==
    LET r == Resolve(disk.names, p, FALSE)
        n == Resolve(disk.names, q, FALSE)
    IN  /\ r.err = "" /\ n.err = ""
        /\ Exists(disk.names, r.path) /\ Exists(disk.names, n.path)
        /\ \/ r.path = n.path
           \/ disk.names[r.path].kind = "file" /\ disk.names[n.path] = disk.names[r.path]

\* The bytes the cache held for p are its entry for q, it has no entry for
\* p, and readFile(q) returns those bytes.
EntryMoved ==
    /\ CacheHas(cache, Key(last.b))
    /\ CacheGet(cache, Key(last.b)) = CacheGet(last.before, Key(last.a))
    /\ ~CacheHas(cache, Key(last.a))
    /\ \A e \in readFile(last.b) : e.res = Returned(CacheGet(last.before, Key(last.a)))

\* C11 as stated: when the cache holds an entry for p and rename(p, q)
\* succeeds, the cache then holds the same bytes under q and nothing under p,
\* readFile(q) returns those bytes and readFile(p) fails with ENOENT.
C11_RenameMovesEntry ==
    RenamedCached =>
        /\ EntryMoved
        /\ \A e \in readFile(last.a) : e.res = FsThrew("ENOENT")

\* C11 amended: the same, when q is not a name of the file p names (the same
\* path, or a hard link of the same file; the rename on disk then does
\* nothing and p stays readable), and with readFile(p) failing with ENOENT or,
\* when the file has replaced a link that p passes through, with ENOTDIR.
C11_RenameMovesEntryOfAnotherFile ==
    (RenamedCached /\ ~NamesOneFile(last.diskBefore, Key(last.a), Key(last.b))) =>
        /\ EntryMoved
        /\ \A e \in readFile(last.a) :
               e.res.outcome = "Error" /\ e.res.code \in {"ENOENT", "ENOTDIR"}

\* A cached path has been renamed onto another path the cache held other
\* bytes for.
C11_Witness ==
    /\ RenamedCached
    /\ ~NamesOneFile(last.diskBefore, Key(last.a), Key(last.b))
    /\ CacheHas(last.before, Key(last.b))
    /\ CacheGet(last.before, Key(last.b)) # CacheGet(last.before, Key(last.a))

\* C12: when the cache holds no entry for p and rename(p, q) succeeds, the
\* rename takes no cache action and the cache then has an entry under neither
\* p nor q, whatever it held for q before.
C12_RenameOfUncached ==
    (last.op \in RenameOps /\ last.outcome = "ok" /\ ~CacheHas(last.before, Key(last.a))) =>
        /\ cache = last.before
        /\ ~CacheHas(cache, Key(last.a))
        /\ ~CacheHas(cache, Key(last.b))

(***************************************************************************)
(* Properties of overlapping calls (SpecAsync).                            *)
(***************************************************************************)
AsyncReadOps == {"readFile", "Result.readFile"}

\* Every call made has ended.
AllDone == \A i \in DOMAIN tasks : tasks[i].phase = "done"

\* Two calls have been made on one path, one of them an op1 and the other an
\* op2, the second before the first had ended.
Race(ops1, ops2) ==
    /\ Len(tasks) = 2
    /\ tasks[1].a = tasks[2].a
    /\ tasks[2].doneAtStart = 0
    /\ \/ tasks[1].op \in ops1 /\ tasks[2].op \in ops2
       \/ tasks[1].op \in ops2 /\ tasks[2].op \in ops1

\* C13: when a writeFile and a readFile of one path overlap, the cache holds
\* bytes for the path that differ from the disk only while the write has been
\* performed on disk and the writeFile has not yet set the cache; once both
\* calls have ended the cache agrees with the disk.
C13_WriteReadRace ==
    Race({"writeFile"}, AsyncReadOps) =>
        /\ ~Agrees(Key(tasks[1].a)) =>
               \E i \in DOMAIN tasks : tasks[i].op = "writeFile" /\ tasks[i].phase = "resume"
        /\ AllDone => Agrees(Key(tasks[1].a))

\* All calls made are readFile calls of one path whose file is on disk, each
\* made before any of them had ended, and all have ended.
ReadRace ==
    /\ Len(tasks) >= 2
    /\ AllDone
    /\ \A i \in DOMAIN tasks :
           /\ tasks[i].op \in AsyncReadOps
           /\ tasks[i].a = tasks[1].a
           /\ tasks[i].doneAtStart = 0
    /\ FsReadFile(fs, Key(tasks[1].a)).err = ""

\* Each call has read the disk itself and returned the content of the file.
EachReadDisk ==
    \A i \in DOMAIN tasks :
        /\ tasks[i].key = Key(tasks[1].a)
        /\ tasks[i].res.outcome \in {"ok", "ResultOK"}
        /\ tasks[i].res.data = FsReadFile(fs, Key(tasks[1].a)).data

\* C14 as stated: when several readFile calls of one uncached path overlap,
\* with no mutation, each reads the disk, all return the same bytes, and once
\* all have ended the cache holds one entry, that of the key, with the content
\* on disk.
C14_ReadRace ==
    ReadRace =>
        /\ EachReadDisk
        /\ DOMAIN cache.store = {Key(tasks[1].a)}
        /\ Agrees(Key(tasks[1].a))

\* C14 amended: the cache holds that entry when the content is no more than
\* its budget, and no entry when it is more (always so with a budget of 0).
C14_ReadRaceWithinBudget ==
    ReadRace =>
        /\ EachReadDisk
        /\ IF Len(FsReadFile(fs, Key(tasks[1].a)).data) <= cache.budget
           THEN DOMAIN cache.store = {Key(tasks[1].a)} /\ Agrees(Key(tasks[1].a))
           ELSE DOMAIN cache.store = {}

\* Three overlapping reads have ended and the cache holds the entry.
C14_Witness ==
    /\ ReadRace
    /\ Len(tasks) = 3
    /\ CacheHas(cache, Key(tasks[1].a))

\* C15: when a readFile and a delete of one path overlap, the read returns
\* the bytes the file had or fails with ENOENT, and once both have ended with
\* the delete successful the cache holds no entry for the path.
C15_ReadDeleteRace ==
    Race(AsyncReadOps, {"delete"}) =>
        /\ \A i \in DOMAIN tasks :
               (tasks[i].op \in AsyncReadOps /\ tasks[i].phase = "done") =>
                   \/ tasks[i].res.data = FsReadFile(fs, Key(tasks[1].a)).data
                      /\ tasks[i].res.outcome \in {"ok", "ResultOK"}
                   \/ tasks[i].res.code = "ENOENT"
        /\ (AllDone /\ \E i \in DOMAIN tasks :
                           tasks[i].op = "delete" /\ tasks[i].res.outcome = "ok") =>
               ~CacheHas(cache, Key(tasks[1].a))

\* A readFile and a delete have overlapped and the delete was successful.
C15_DeleteSucceededInRace ==
    /\ Race(AsyncReadOps, {"delete"})
    /\ \E i \in DOMAIN tasks : tasks[i].op = "delete" /\ tasks[i].res.outcome = "ok"

(***************************************************************************)
(* Properties of calls made one after the other (Spec), continued.         *)
(***************************************************************************)
\* The call just made is a writeFile or writeFileSync that succeeded.
Written == last.op \in WriteFileOps /\ last.outcome = "ok"

\* The file at the key of the call just made holds the bytes written and
\* nothing else.
DiskHoldsWritten == FsReadFile(fs, Key(last.a)) = [err |-> "", data |-> last.buf]

\* C16 as stated: a successful writeFile(p, bytes) makes bytes the whole
\* content of the file at the key, creating the file when there is none, and
\* makes bytes the cache entry of the key, whether or not there was one.
C16_WriteReplacesAndSets ==
    Written =>
        /\ DiskHoldsWritten
        /\ CacheHas(cache, Key(last.a))
        /\ CacheGet(cache, Key(last.a)) = last.buf

\* C16 amended: bytes are the cache entry of the key when they are no more
\* than the cache's budget; when they are more (always so with a budget of 0)
\* the cache holds no entry for the key.
C16_WriteReplacesAndSetsWithinBudget ==
    Written =>
        /\ DiskHoldsWritten
        /\ IF Len(last.buf) <= cache.budget
           THEN CacheHas(cache, Key(last.a)) /\ CacheGet(cache, Key(last.a)) = last.buf
           ELSE ~CacheHas(cache, Key(last.a))

\* A file has been created by a write, its bytes stored in a cache that held
\* no entry for it.
C16_Witness ==
    /\ Written
    /\ FsLstat(last.diskBefore, Key(last.a)).err = "ENOENT"
    /\ ~CacheHas(last.before, Key(last.a))
    /\ CacheHas(cache, Key(last.a))

\* The call just made was given a path that is not a string, or is a
\* writeFile or writeFileSync given data that is not a Buffer.
WrongKindOfArgument ==
    /\ last # Idle
    /\ \/ NotAString \in PathsOfLast
       \/ last.op \in WriteFileOps /\ last.buf = NotABuffer

\* The call just made called no filesystem primitive and left the disk and
\* the cache as they were.
NothingTouched ==
    /\ last.calls = << >>
    /\ fs = last.diskBefore
    /\ cache = last.before

\* C17: a call given a path that is not a string, or a writeFile given data
\* that is not a Buffer, fails with a TypeError, whatever the containment
\* check would say of its paths, with no filesystem primitive called and the
\* disk and the cache left as they were.
C17_TypeErrorFirst ==
    WrongKindOfArgument => last.outcome = "TypeError" /\ NothingTouched

\* A writeFile has been given data that is not a Buffer together with a path
\* the containment check refuses.
C17_Witness ==
    /\ last.op \in WriteFileOps
    /\ last.buf = NotABuffer
    /\ IsString(last.a)
    /\ ~Contained(Key(last.a))

TwoPathOps ==
    {"rename", "renameSync", "createSymLink", "createSymLinkSync",
     "createHardLink", "createHardLinkSync", "copyFile"}

\* The call just made was given arguments of the right kinds and is not a
\* delete or deleteSync (which end before their containment check).
CheckedCall ==
    /\ last # Idle
    /\ ~WrongKindOfArgument
    /\ last.op \notin DeleteOps

\* The call just made ended with the error of the containment check: a
\* RangeError, or Result.E of the error of the result-wrapping accessors.
ContainmentFailure ==
    \/ last.outcome = "RangeError"
    \/ last.outcome = "ResultE" /\ last.code = ""

\* C18: a call with a path outside the data directory ends with the
\* containment error, with no filesystem primitive called and the disk and the
\* cache left as they were; a two-path operation with both paths outside
\* reports the error of its first argument.
C18_ContainmentBeforeIO ==
    /\ (CheckedCall /\ \E p \in PathsOfLast : ~InsideRoot(Key(p))) =>
           ContainmentFailure /\ NothingTouched
    /\ (CheckedCall /\ last.op \in TwoPathOps
          /\ \A p \in PathsOfLast : ~InsideRoot(Key(p))) =>
           last.outcome = "RangeError" /\ last.param = "first"

\* The same of the paths the guard refuses (those that do not start with the
\* data directory's path): this much the handlers do.
C18_RefusedBeforeIO ==
    /\ (CheckedCall /\ \E p \in PathsOfLast : ~Contained(Key(p))) =>
           ContainmentFailure /\ NothingTouched
    /\ (CheckedCall /\ last.op \in TwoPathOps
          /\ \A p \in PathsOfLast : ~Contained(Key(p))) =>
           last.outcome = "RangeError" /\ last.param = "first"

\* The class of the error a call ended with: that of the error thrown, or of
\* the error inside Result.E (new Error(...) of the containment check, or the
\* error of the filesystem, an Error with a code); "" when it ended well.
ErrorClass(o) ==
    IF o.outcome \in {"TypeError", "RangeError"} THEN o.outcome
    ELSE IF o.outcome \in {"Error", "ResultE"} THEN "Error"
    ELSE ""

ReadOnlyOps ==
    {"readFile", "readFileSync", "readDir", "readDirSync", "info", "infoSync",
     "resolvePath", "resolvePathSync",
     "Result.readFile", "Result.readFileSync", "Result.readDir", "Result.readDirSync",
     "isFile", "isFileSync", "isDir", "isDirSync", "isSymLink", "isSymLinkSync"}

\* C19: in both read accessors, a call whose path the containment check
\* refuses ends with an error of another class than the errors of the
\* filesystem (which are Errors with a code), so that the caller tells a
\* disallowed path from a missing one by the class of the error.
C19_ContainmentErrorDistinct ==
    (last.op \in ReadOnlyOps /\ IsString(last.a) /\ ~Contained(Key(last.a))) =>
        ErrorClass(last) \notin {"", "Error"}

\* The operations that call lstatSync with { throwIfNoEntry: false }: no
\* entry is then an answer of the primitive, not a failure of it.
NoThrowIfNoEntryOps == {"isFileSync", "isDirSync", "isSymLinkSync"}

\* The error code with which the primitive of the call c fails on disk, ""
\* when it succeeds there.
PrimitiveError(c, disk) ==
    LET p == c.paths[1]
        e == CASE c.prim = "readFile" -> FsReadFile(disk, p).err
               [] c.prim = "writeFile" -> FsWriteFile(disk, p, last.buf).err
               [] c.prim = "readdir" -> FsReaddir(disk, p).err
               [] c.prim = "lstat" -> FsLstat(disk, p).err
               [] c.prim = "realpath" -> FsRealpath(disk, p).err
               [] c.prim = "mkdir" -> FsMkdir(disk, p).err
               [] c.prim = "symlink" -> FsSymlink(disk, p, c.paths[2]).err
               [] c.prim = "link" -> FsLink(disk, p, c.paths[2]).err
               [] c.prim = "rename" -> FsRename(disk, p, c.paths[2]).err
               [] c.prim = "copyFile" -> FsCopyFile(disk, p, c.paths[2]).err
    IN  IF last.op \in NoThrowIfNoEntryOps /\ e = "ENOENT" THEN "" ELSE e

\* C20: a call calls its filesystem primitive at most once, and when the
\* primitive fails the call ends with the error of the primitive as it is
\* (thrown, or inside Result.E).
C20_OnceAndPassedThrough ==
    /\ Len(last.calls) <= 1
    /\ Len(last.calls) = 1 =>
           LET e == PrimitiveError(last.calls[1], last.diskBefore)
           IN  e # "" => /\ last.outcome \in {"Error", "ResultE"}
                         /\ last.code = e
                         /\ fs = last.diskBefore

\* A write whose primitive has failed.
C20_Witness ==
    /\ last.op \in WriteFileOps
    /\ Len(last.calls) = 1
    /\ FsWriteFile(last.diskBefore, Key(last.a), last.buf).err = "EISDIR"

(***************************************************************************)
(* Construction (C21 to C23).                                              *)
(***************************************************************************)
\* The call just made is a construction.
Constructed == last # Idle /\ last.op = "constructor"

\* A cache argument that is neither null or absent, nor an integer that is
\* not negative, nor a Cache: a string, -1, 0.5.
InvalidCacheArg(c) ==
    \/ c.tag \in {"string", "fraction"}
    \/ c.tag = "int" /\ c.n < 0

\* The construction just made ended with a TypeError before it touched the
\* filesystem.
RejectedUntouched ==
    /\ last.outcome = "TypeError"
    /\ last.calls = << >>
    /\ fs = last.diskBefore

\* The root directory of the construction just made can be made on the disk
\* it was made on.
RootCanBeMade == FsMkdir(last.diskBefore, PathResolve(<< last.a >>)).err = ""

\* C21: a construction with a dataDir that is no string ends with a
\* TypeError, and so does one with a cache argument that is neither null or
\* absent, nor an integer >= 0, nor a Cache; either ends before the root
\* directory is made, so the filesystem is as it was.  With a string dataDir
\* whose directory can be made and a cache argument of 0 or none the
\* construction succeeds.
C21_ConstructorRejects ==
    Constructed =>
        /\ ~IsString(last.a) => RejectedUntouched
        /\ InvalidCacheArg(last.buf) => RejectedUntouched
        /\ ( /\ IsString(last.a)
             /\ last.buf \in {[tag |-> "absent", n |-> 0], [tag |-> "int", n |-> 0]}
             /\ RootCanBeMade )
           => last.outcome = "ok"

\* A construction with a string dataDir was rejected for its cache argument on
\* a disk that does not hold the root directory, which it did not make.
C21_Witness ==
    /\ Constructed
    /\ IsString(last.a)
    /\ InvalidCacheArg(last.buf)
    /\ last.outcome = "TypeError"
    /\ ~Exists(last.diskBefore.names, PathResolve(<< last.a >>))
    /\ ~Exists(fs.names, PathResolve(<< last.a >>))

\* What C22 says of the state a construction leaves.
RootMade ==
    /\ (Constructed /\ last.outcome = "ok") =>
          /\ Exists(fs.names, dataDir)
          /\ fs.names[dataDir].kind = "dir"
          /\ dataDir = PathResolve(<< last.a >>)
          /\ IsAbsolute(dataDir)
          /\ (IsAbsolute(last.a) /\ last.a = PathOf(SegsOf(last.a))) => dataDir = last.a
    /\ ( /\ Constructed
         /\ IsString(last.a)
         /\ ~InvalidCacheArg(last.buf)
         /\ Exists(last.diskBefore.names, PathResolve(<< last.a >>))
         /\ last.diskBefore.names[PathResolve(<< last.a >>)].kind = "dir" )
       => /\ last.outcome = "ok"
          /\ fs = last.diskBefore

\* C22: after a construction that succeeded the root directory exists on the
\* disk and dataDir is the absolute resolved form of the argument (the
\* argument itself when that is absolute and normalized); a construction on a
\* root that exists succeeds and leaves the disk as it is; and no operation
\* called on the instance changes dataDir.
C22_RootMadeAndDataDirFixed ==
    /\ []RootMade
    /\ [][last'.op # "constructor" => dataDir' = dataDir]_vars

\* An instance was constructed with a relative dataDir on a disk that held
\* the root directory already.
C22_Witness ==
    /\ Constructed
    /\ last.outcome = "ok"
    /\ ~IsAbsolute(last.a)
    /\ Exists(last.diskBefore.names, dataDir)

\* C23: the cache of an instance constructed with null or no cache argument
\* is a new cache with a budget of 0 bytes, with an integer n >= 0 a new cache
\* with the budget n, and with a Cache that very cache, with what it holds.
C23_CacheOfInstance ==
    (Constructed /\ last.outcome = "ok") =>
        /\ last.buf.tag \in {"null", "absent"} => cache = NewCache(0)
        /\ (last.buf.tag = "int" /\ last.buf.n >= 0) => cache = NewCache(last.buf.n)
        /\ last.buf.tag = "cache" => cache = last.buf.c
        /\ cache.budget >= 0

\* An instance was constructed with a Cache that held an entry.
C23_Witness ==
    /\ Constructed
    /\ last.outcome = "ok"
    /\ last.buf.tag = "cache"
    /\ last.buf.c.store # << >>
    /\ cache.store # << >>

(***************************************************************************)
(* The cache switched off (C24).                                           *)
(***************************************************************************)
\* The call just made called the disk's read primitive for its path.
ReadTheDisk == \E i \in DOMAIN last.calls :
                  last.calls[i] = FsCall("readFile", << Key(last.a) >>)

SymLinkOps == {"createSymLink", "createSymLinkSync"}
HardLinkOps == {"createHardLink", "createHardLinkSync"}

\* The name the filesystem gives the path p: p with the symbolic links among
\* its directories followed.
NameOn(disk, p) == Resolve(disk.names, p, FALSE)

\* The link call just made was given two strings.
LinkCalled ==
    /\ last.op \in SymLinkOps \cup HardLinkOps
    /\ IsString(last.a)
    /\ IsString(last.b)

\* The link the call just made was to create is there: a symbolic link that
\* holds the resolved target, or a second name of the file at the resolved
\* target.
LinkMade ==
    LET n == NameOn(last.diskBefore, Key(last.b))
    IN  /\ n.err = ""
        /\ ~Exists(last.diskBefore.names, n.path)
        /\ Exists(fs.names, n.path)
        /\ last.op \in SymLinkOps => fs.names[n.path] = LinkEntry(Key(last.a))
        /\ last.op \in HardLinkOps =>
              LET t == NameOn(last.diskBefore, Key(last.a))
              IN  /\ t.err = ""
                  /\ Exists(last.diskBefore.names, t.path)
                  /\ fs.names[n.path] = last.diskBefore.names[t.path]
        /\ \A p \in DOMAIN last.diskBefore.names :
              Exists(fs.names, p) /\ fs.names[p] = last.diskBefore.names[p]
        /\ DOMAIN fs.names = DOMAIN last.diskBefore.names \cup {n.path}

\* The link path of the call just made named an entry before the call.
LinkPathTaken ==
    LET n == NameOn(last.diskBefore, Key(last.b))
    IN  n.err = "" /\ Exists(last.diskBefore.names, n.path)

\* What C26 says of a call whose two paths are let through: the link is made
\* at the link path and holds the resolved target, a link path that exists
\* makes the call fail with the filesystem's error, and the cache is left
\* as it was.
LinksCreated ==
    (LinkCalled /\ GuardPassed) =>
        /\ cache = last.before
        /\ last.outcome \in {"ok", "Error"}
        /\ last.outcome = "ok" => LinkMade
        /\ last.outcome = "Error" => fs = last.diskBefore
        /\ LinkPathTaken => (last.outcome = "Error" /\ last.code # "")

\* C26: createSymLink, createHardLink and their Sync forms resolve both paths
\* and refuse the call, before any filesystem call, unless both lie in the
\* data directory; they create the link at the link path pointing at the
\* resolved target, fail with the filesystem's error when the link path
\* exists, and never change the cache.
C26_LinksCheckedAndCreated ==
    /\ LinkCalled =>
          /\ cache = last.before
          /\ (~InsideRoot(Key(last.a)) \/ ~InsideRoot(Key(last.b))) =>
                /\ last.outcome = "RangeError"
                /\ last.calls = << >>
                /\ fs = last.diskBefore
    /\ LinksCreated

\* C26, of the calls the guard lets through only: the link is created, an
\* existing link path is the filesystem's error, the cache is unchanged.
C26_LinksCreatedPastGuard == LinksCreated

\* A hard link to a file of the data directory was made below it.
C26_LinkMadeInside ==
    /\ LinkCalled
    /\ last.op \in HardLinkOps
    /\ last.outcome = "ok"
    /\ InsideRoot(Key(last.a))
    /\ InsideRoot(Key(last.b))

(***************************************************************************)
(* createDir (C27).                                                        *)
(***************************************************************************)
CreateDirOps == {"createDir", "createDirSync"}

\* The path p and the paths of the directories above it.
UpTo(p) == {PathOf(SubSeq(SegsOf(p), 1, i)) : i \in 0..Len(SegsOf(p))}

\* p names a directory on the disk, itself or by a symbolic link.
IsDirOn(disk, p) ==
    LET r == Resolve(disk.names, p, TRUE)
    IN  r.err = "" /\ Exists(disk.names, r.path) /\ disk.names[r.path].kind = "dir"

\* The createDir just made was given a path in the data directory.
DirCalled ==
    /\ last.op \in CreateDirOps
    /\ GuardPassed
    /\ InsideRoot(Key(last.a))

\* Nothing but directories is in the way of the directory at p.
WayFree(disk, p) ==
    \A q \in UpTo(p) : Exists(disk.names, q) => disk.names[q].kind = "dir"

\* C27: createDir and createDirSync on a path in the data directory create
\* the directory and every directory missing above it, and nothing else; on
\* a directory that exists they succeed and leave the disk as it is; the
\* cache is left as it is in every case.
C27_CreateDirRecursiveIdempotent ==
    DirCalled =>
        /\ cache = last.before
        /\ WayFree(last.diskBefore, Key(last.a)) =>
              /\ last.outcome = "ok"
              /\ \A q \in UpTo(Key(last.a)) :
                    Exists(fs.names, q) /\ fs.names[q].kind = "dir"
              /\ DOMAIN fs.names = DOMAIN last.diskBefore.names \cup UpTo(Key(last.a))
        /\ last.outcome = "ok" =>
              /\ fs.data = last.diskBefore.data
              /\ \A q \in DOMAIN last.diskBefore.names :
                    Exists(fs.names, q) /\ fs.names[q] = last.diskBefore.names[q]
              /\ \A q \in DOMAIN fs.names \ DOMAIN last.diskBefore.names :
                    fs.names[q].kind = "dir"
        /\ IsDirOn(last.diskBefore, Key(last.a)) =>
              /\ last.outcome = "ok"
              /\ fs = last.diskBefore
        /\ last.outcome # "ok" => fs = last.diskBefore

\* A createDir made a directory and the missing directory above it.
C27_Witness ==
    /\ DirCalled
    /\ last.outcome = "ok"
    /\ ~Exists(last.diskBefore.names, Parent(Key(last.a)))
    /\ Exists(fs.names, Parent(Key(last.a)))
    /\ Exists(fs.names, Key(last.a))
    /\ Parent(Key(last.a)) # dataDir

\* A createDir was called on a directory that existed, with an entry in the
\* cache.
C27_WitnessExisting ==
    /\ DirCalled
    /\ last.outcome = "ok"
    /\ IsDirOn(last.diskBefore, Key(last.a))
    /\ last.before.store # << >>

(***************************************************************************)
(* readDir and info (C28, C29).                                            *)
(***************************************************************************)
ReadDirOps == {"readDir", "readDirSync"}
InfoOps == {"info", "infoSync"}

\* The readDir or info just made was given a path in the data directory.
DiskOnlyCalled ==
    /\ last.op \in ReadDirOps \cup InfoOps
    /\ GuardPassed
    /\ InsideRoot(Key(last.a))

\* C28: readDir, info and their Sync forms, called with a path in the data
\* directory, call the disk's primitive (readdir, lstat) once for the resolved
\* path and end with what it gave, its result or its error; whatever the
\* cache holds, it is as it was after the call, and so is the disk.
C28_DiskOnlyReads ==
    DiskOnlyCalled =>
        /\ cache = last.before
        /\ fs = last.diskBefore
        /\ last.op \in ReadDirOps =>
              LET r == FsReaddir(last.diskBefore, Key(last.a))
              IN  /\ last.calls = << FsCall("readdir", << Key(last.a) >>) >>
                  /\ IF r.err # ""
                     THEN last.outcome = "Error" /\ last.code = r.err
                     ELSE last.outcome = "ok" /\ last.names = r.names
        /\ last.op \in InfoOps =>
              LET r == FsLstat(last.diskBefore, Key(last.a))
              IN  /\ last.calls = << FsCall("lstat", << Key(last.a) >>) >>
                  /\ IF r.err # ""
                     THEN last.outcome = "Error" /\ last.code = r.err
                     ELSE last.outcome = "ok" /\ last.kind = r.kind

\* An info was called for a file whose bytes the cache held.
C28_Witness ==
    /\ DiskOnlyCalled
    /\ last.op \in InfoOps
    /\ CacheHas(last.before, Key(last.a))
    /\ last.outcome = "ok"
    /\ last.kind = "file"
    /\ last.calls # << >>

\* A readDir was called with entries in the cache and returned names.
C28_WitnessReadDir ==
    /\ DiskOnlyCalled
    /\ last.op \in ReadDirOps
    /\ last.before.store # << >>
    /\ last.outcome = "ok"
    /\ last.names # {}

\* C29: info and infoSync reject an argument that is no string with
\* TypeError('Expected entry to be a String') and a path that resolves
\* outside the data directory with RangeError('Expected entry to be inside
\* the Data Directory').
C29_InfoRejects ==
    last.op \in InfoOps =>
        /\ ~IsString(last.a) =>
              last.outcome = "TypeError" /\ last.param = "entry"
        /\ (IsString(last.a) /\ ~InsideRoot(Key(last.a))) =>
              last.outcome = "RangeError" /\ last.param = "entry"

\* C29, with the messages the code has: the TypeError and the RangeError of
\* info and infoSync name the parameter pathname, and the RangeError is the
\* answer to every path the guard refuses.
C29_InfoRejectsNamingPathname ==
    last.op \in InfoOps =>
        /\ ~IsString(last.a) =>
              last.outcome = "TypeError" /\ last.param = "pathname"
        /\ (IsString(last.a) /\ ~Contained(Key(last.a))) =>
              last.outcome = "RangeError" /\ last.param = "pathname"

\* An info was refused for the parent of the data directory.
C29_InfoRefused ==
    /\ last.op \in InfoOps
    /\ last.a = << ".", "." >>
    /\ last.outcome = "RangeError"

(***************************************************************************)
(* Paths are relative to the data directory (C30).                         *)
(***************************************************************************)
\* The data directory joined with s: s taken as a path below it, whatever
\* it starts with, and normalized.
Joined(s) == PathOf(NormalizeSegs(Split(dataDir \o << Sep >> \o s), << >>))

\* The path arguments of the call just made that are strings.
StringsOfLast == {p \in PathsOfLast : IsString(p)}

\* C30: every path string given to an operation is taken as relative to the
\* data directory, one that starts with a separator too: the path an
\* operation hands to the filesystem for an argument s is the data directory
\* joined with s, and a call is refused as outside the data directory only
\* if that joined path lies outside it.
C30_PathsRelativeToRoot ==
    (last # Idle /\ StringsOfLast = PathsOfLast) =>
        /\ \A i \in DOMAIN last.calls :
              \A j \in DOMAIN last.calls[i].paths :
                  last.calls[i].paths[j] \in {Joined(p) : p \in StringsOfLast}
        /\ (\A p \in StringsOfLast : InsideRoot(Joined(p))) => GuardPassed

\* What path.resolve makes of the argument s: the data directory joined with
\* s when s does not start with a separator, and s itself, normalized, when
\* it does.
ResolvedFromRoot(s) == IF IsAbsolute(s) THEN PathOf(SegsOf(s)) ELSE Joined(s)

\* C30 as the code has it: a path string that does not start with a separator
\* is taken as relative to the data directory, and one that does is taken by
\* its own absolute value; the path handed to the filesystem is that resolved
\* path, and a call goes past the guard only if the guard accepts the
\* resolved path of each of its arguments.
C30_PathsResolvedAgainstRoot ==
    (last # Idle /\ StringsOfLast = PathsOfLast) =>
        /\ \A p \in StringsOfLast : Key(p) = ResolvedFromRoot(p)
        /\ \A i \in DOMAIN last.calls :
              \A j \in DOMAIN last.calls[i].paths :
                  last.calls[i].paths[j] \in {ResolvedFromRoot(p) : p \in StringsOfLast}
        /\ GuardPassed => \A p \in StringsOfLast : Contained(ResolvedFromRoot(p))

\* A path that starts with a separator was refused, though the data directory
\* joined with it lies in the data directory.
C30_Witness ==
    /\ last.op \in ReadFileOps
    /\ IsAbsolute(last.a)
    /\ InsideRoot(Joined(last.a))
    /\ ~Contained(ResolvedFromRoot(last.a))
    /\ last.outcome = "RangeError"
    /\ last.calls = << >>

(***************************************************************************)
(* resolvePath (C31).                                                      *)
(***************************************************************************)
ResolvePathOps == {"resolvePath", "resolvePathSync"}

\* The canonical form of the path of the call just made, on the disk it
\* was made on: the path with every symbolic link followed.
Canonical == FsRealpath(last.diskBefore, Key(last.a))

\* C31: resolvePath and resolvePathSync return a path only when the resolved
\* path and its canonical form both lie in the data directory, and the path
\* returned is that canonical form; when either lies outside they end with a
\* RangeError; for an entry that exists and whose two paths lie inside they
\* succeed.
C31_ResolvePathContained ==
    (last.op \in ResolvePathOps /\ IsString(last.a)) =>
        /\ last.outcome = "ok" =>
              /\ InsideRoot(Key(last.a))
              /\ Canonical.err = ""
              /\ last.data = Canonical.path
              /\ InsideRoot(last.data)
        /\ ~InsideRoot(Key(last.a)) => last.outcome = "RangeError"
        /\ (InsideRoot(Key(last.a)) /\ Canonical.err = "") =>
              IF InsideRoot(Canonical.path)
              THEN last.outcome = "ok"
              ELSE last.outcome = "RangeError"

\* C31, of what the guard accepts: a path is returned only when the guard
\* accepts the resolved path and its canonical form, which is the path
\* returned; a path the guard refuses, before or after the links are
\* followed, ends the call with a RangeError.
C31_ResolvePathPastGuard ==
    (last.op \in ResolvePathOps /\ IsString(last.a)) =>
        /\ last.outcome = "ok" =>
              /\ Contained(Key(last.a))
              /\ Canonical.err = ""
              /\ last.data = Canonical.path
              /\ Contained(last.data)
        /\ ~Contained(Key(last.a)) => (last.outcome = "RangeError" /\ last.calls = << >>)
        /\ (Contained(Key(last.a)) /\ Canonical.err = "") =>
              IF Contained(Canonical.path)
              THEN last.outcome = "ok"
              ELSE last.outcome = "RangeError"
        /\ cache = last.before
        /\ fs = last.diskBefore

\* A resolvePath followed a symbolic link and returned the path it leads to.
C31_LinkFollowed ==
    /\ last.op \in ResolvePathOps
    /\ last.outcome = "ok"
    /\ last.data # Key(last.a)
    /\ InsideRoot(last.data)

(***************************************************************************)
(* What changes the cache (C32).                                           *)
(***************************************************************************)
\* The operations that are to leave the cache alone.
CacheFrameOps ==
    {"readDir", "readDirSync", "Result.readDir", "Result.readDirSync",
     "info", "infoSync", "resolvePath", "resolvePathSync",
     "isFile", "isFileSync", "isDir", "isDirSync", "isSymLink", "isSymLinkSync",
     "createDir", "createDirSync", "createSymLink", "createSymLinkSync",
     "createHardLink", "createHardLinkSync", "copyFile"}

\* The operations that read a file through the cache.
CachedReadOps == ReadFileOps \cup {"Result.readFile", "Result.readFileSync"}

\* The call just made succeeded / failed.
Succeeded == last # Idle /\ last.outcome \in {"ok", "ResultOK"}
Failed == last # Idle /\ ~Succeeded

\* The keys the call just made added to the cache, took from it, and left
\* in it with other bytes.
KeysAdded == DOMAIN cache.store \ DOMAIN last.before.store
KeysRemoved == DOMAIN last.before.store \ DOMAIN cache.store
KeysChanged ==
    {k \in DOMAIN cache.store \cap DOMAIN last.before.store :
        cache.store[k] # last.before.store[k]}

\* The operations named, and every operation that failed, leave the keys and
\* the bytes of the cache as they were.
CacheLeftAlone == (last.op \in CacheFrameOps \/ Failed) => cache = last.before

\* A key enters the cache only as the key of a readFile or writeFile that
\* succeeded or as the new key of a rename, and the bytes of a key change
\* only by a writeFile of it or by a rename onto it.
CacheSetOnlyByAccess ==
    last # Idle =>
        /\ KeysAdded # {} =>
              \/ last.op \in CachedReadOps \cup WriteFileOps /\ KeysAdded = {Key(last.a)}
              \/ last.op \in RenameOps /\ KeysAdded = {Key(last.b)}
        /\ KeysChanged # {} =>
              \/ last.op \in WriteFileOps /\ KeysChanged = {Key(last.a)}
              \/ last.op \in RenameOps /\ KeysChanged = {Key(last.b)}

\* C32: entries are created only by a readFile or writeFile that succeeded,
\* changed only by a later writeFile, moved only by rename and removed only by
\* delete; readDir, info, resolvePath, isFile, isDir, isSymLink, createDir,
\* createSymLink, createHardLink, copyFile and every operation that failed
\* leave the keys and the bytes of the cache unchanged.
C32_CacheChangedOnlyByItsOperations ==
    /\ CacheLeftAlone
    /\ CacheSetOnlyByAccess
    /\ (last # Idle /\ KeysRemoved # {}) =>
          \/ last.op \in DeleteOps /\ KeysRemoved = {Key(last.a)}
          \/ last.op \in RenameOps /\ KeysRemoved = {Key(last.a)}

\* C32 with what the byte budget does: a key also leaves the cache when a
\* readFile or writeFile that succeeded stores bytes and the cache makes
\* room for them, or is given bytes larger than its budget for that key.
C32_CacheChangedOnlyByItsOperationsOrBudget ==
    /\ CacheLeftAlone
    /\ CacheSetOnlyByAccess
    /\ (last # Idle /\ KeysRemoved # {}) =>
          \/ last.op \in DeleteOps /\ KeysRemoved = {Key(last.a)}
          \/ last.op \in RenameOps /\ KeysRemoved = {Key(last.a)}
          \/ /\ last.op \in CachedReadOps \cup WriteFileOps
             /\ Succeeded
             /\ \/ KeysAdded = {Key(last.a)}
                \/ KeysChanged = {Key(last.a)}
                \/ /\ KeysRemoved = {Key(last.a)}
                   /\ Len(IF last.op \in WriteFileOps THEN last.buf ELSE last.data)
                         > cache.budget
    /\ last # Idle => cache.budget = last.before.budget

\* A copyFile wrote a file whose bytes the cache held, and left the cache
\* as it was.
C32_Witness ==
    /\ last.op = "copyFile"
    /\ Succeeded
    /\ CacheHas(last.before, Key(last.b))
    /\ fs # last.diskBefore
    /\ cache = last.before

(***************************************************************************)
(* The two read accessors (C33).                                           *)
(***************************************************************************)
\* The outcome of the result-wrapping accessor that answers to the outcome o
\* of the exception-raising one: OK of the value returned, E for the
\* guard's error and for the filesystem's, the TypeError as it is.
Wrapped(o) ==
    IF o.outcome = "ok" THEN [o EXCEPT !.outcome = "ResultOK"]
    ELSE IF o.outcome = "RangeError" THEN ResultE("")
    ELSE IF o.outcome = "Error" THEN ResultE(o.code)
    ELSE o

\* The ways of ending ends with each outcome wrapped.
WrappedEnds(ends) == {[e EXCEPT !.res = Wrapped(e.res)] : e \in ends}

\* C33: called in the same state with the same argument, readFile and readDir
\* (and their Sync forms) of the exception-raising accessor return v exactly
\* when those of the result-wrapping accessor return OK(v), fail with the
\* guard's or the filesystem's error exactly when those return an E, both
\* throw a TypeError for an argument that is no string, and both leave the
\* same cache and the same disk.
C33_AccessorsAgree ==
    last = Idle =>
        \A p \in PathArgs :
            /\ readFileResult(p) = WrappedEnds(readFile(p))
            /\ readFileSyncResult(p) = WrappedEnds(readFileSync(p))
            /\ readDirResult(p) = WrappedEnds(readDir(p))
            /\ readDirSyncResult(p) = WrappedEnds(readDirSync(p))
            /\ \A e \in readFileResult(p) \cup readDirResult(p) :
                  /\ e.res.outcome \in {"ResultOK", "ResultE", "TypeError"}
                  /\ e.res.outcome = "TypeError" <=> ~IsString(p)

\* Between two calls the cache holds a file, a file on the disk is not in the
\* cache, and a path is refused: the accessors hit the cache, read the disk
\* and store, and fail.
C33_Witness ==
    /\ last = Idle
    /\ nOps > 0
    /\ \E p \in PathArgs : \E e \in readFileResult(p) :
          e.res.outcome = "ResultOK" /\ e.calls = << >>
    /\ \E p \in PathArgs : \E e \in readFileResult(p) :
          e.res.outcome = "ResultOK" /\ e.calls # << >> /\ e.cache # cache
    /\ \E p \in PathArgs : \E e \in readFileResult(p) :
          e.res.outcome = "ResultE" /\ e.res.code = ""
    /\ \E p \in PathArgs : \E e \in readDirResult(p) :
          e.res.outcome = "ResultOK" /\ e.res.names # {}

(***************************************************************************)
(* Read queries of a path that does not exist (C34).                       *)
(***************************************************************************)
ReadQueryOps ==
    CachedReadOps \cup ReadDirOps \cup {"Result.readDir", "Result.readDirSync"}
    \cup InfoOps
    \cup {"isFile", "isFileSync", "isDir", "isDirSync", "isSymLink", "isSymLinkSync"}

\* The path p lies in the data directory, names nothing on the disk and has
\* no entry in the cache c.
Missing(disk, c, p) ==
    /\ IsString(p)
    /\ InsideRoot(Key(p))
    /\ FsLstat(disk, Key(p)).err = "ENOENT"
    /\ ~CacheHas(c, Key(p))

\* The read query just made was of a path that did not exist.
MissingQueried ==
    /\ last.op \in ReadQueryOps
    /\ Missing(last.diskBefore, last.before, last.a)

\* The outcome is an error of the filesystem, thrown or in a Result E.
FilesystemError == last.outcome \in {"Error", "ResultE"} /\ last.code # ""

\* C34: every read query of a path in the data directory that names nothing
\* on the disk and has no cache entry ends with the filesystem's error and
\* never with a value, and the Sync form of a query ends as its async form.
C34_MissingPathIsError ==
    /\ MissingQueried => FilesystemError
    /\ last = Idle =>
          \A p \in PathArgs :
              Missing(fs, cache, p) =>
                  /\ readFileSync(p) = readFile(p)
                  /\ readDirSync(p) = readDir(p)
                  /\ infoSync(p) = info(p)
                  /\ isFileSync(p) = isFile(p)
                  /\ isDirSync(p) = isDir(p)
                  /\ isSymLinkSync(p) = isSymLink(p)

\* C34 of the queries other than isFileSync, isDirSync and isSymLinkSync:
\* a path that does not exist is the filesystem's error, and the Sync forms
\* of readFile, readDir and info end as their async forms.
C34_MissingPathIsErrorButSyncKinds ==
    /\ (MissingQueried /\ last.op \notin NoThrowIfNoEntryOps) => FilesystemError
    /\ (MissingQueried /\ last.op \in NoThrowIfNoEntryOps) =>
          (last.outcome = "ResultOK" /\ last.kind = "false")
    /\ last = Idle =>
          \A p \in PathArgs :
              Missing(fs, cache, p) =>
                  /\ readFileSync(p) = readFile(p)
                  /\ readDirSync(p) = readDir(p)
                  /\ infoSync(p) = info(p)

\* An isFileSync was asked for a path that does not exist.
C34_SyncKindOfMissing ==
    /\ MissingQueried
    /\ last.op = "isFileSync"
    /\ last.outcome = "ResultOK"

(***************************************************************************)
(* The data directory itself (C35).                                        *)
(***************************************************************************)
\* The call just made was given a path that resolves to the data directory.
RootNamed == last # Idle /\ IsString(last.a) /\ Key(last.a) = dataDir

\* What C35 says of the call just made.
RootIsNoFile ==
    /\ (last # Idle /\ last.a = << >>) => (RootNamed /\ Contained(Key(last.a)))
    /\ (RootNamed /\ last.op \in ReadDirOps) =>
          /\ last.outcome = "ok"
          /\ last.names = FsReaddir(last.diskBefore, dataDir).names
    /\ (RootNamed /\ last.op \in CachedReadOps \cup WriteFileOps) => ~Succeeded
    /\ ~CacheHas(cache, dataDir)

\* C35: the empty path resolves to the data directory and passes the guard,
\* so that readDir('') lists the data directory; a readFile or writeFile of a
\* path that resolves to the data directory never succeeds, and the cache
\* never holds an entry under the data directory's path.
C35_RootIsNoFileTarget == RootIsNoFile

\* C35 while the data directory is on the disk: as long as the operations
\* have left the directory where it was made, readDir('') lists it and no
\* readFile or writeFile of it succeeds.
C35_RootIsNoFileTargetWhileThere ==
    (last # Idle /\ IsDirOn(last.diskBefore, dataDir) /\ ~CacheHas(last.before, dataDir))
        => RootIsNoFile

\* A writeFile of the empty path failed on the data directory.
C35_WriteRefusedByDisk ==
    /\ RootNamed
    /\ last.a = << >>
    /\ last.op \in WriteFileOps
    /\ IsBuffer(last.buf)
    /\ last.outcome = "Error"
    /\ last.code = "EISDIR"

(***************************************************************************)
(* The whole cache against the disk (C36).                                 *)
(***************************************************************************)
\* The keys whose cached bytes are not what the disk holds at the key.
StaleKeys == {k \in DOMAIN cache.store : ~Agrees(k)}

\* C36: with the calls of the instance made one at a time and the disk
\* changed only by them, after every call each key the cache holds maps to
\* the bytes the disk holds at that path, also for files reachable under
\* several paths through links and for the destinations of copyFile.
C36_WholeCacheAgreesWithDisk == last # Idle => StaleKeys = {}

\* C36 for the calls that go through the cache's own key: a successful
\* readFile or writeFile leaves its own key, if the cache holds it, with the
\* bytes on the disk, provided the key was not stale before a readFile.
C36_OwnKeyAgrees ==
    /\ (last.op \in WriteFileOps /\ Succeeded) => Agrees(Key(last.a))
    /\ (last.op \in CachedReadOps /\ Succeeded /\ ~CacheHas(last.before, Key(last.a)))
           => Agrees(Key(last.a))

\* A copyFile onto a path whose bytes are cached left the entry stale.
C36_StaleAfterCopyFile ==
    /\ last.op = "copyFile"
    /\ Succeeded
    /\ Key(last.b) \in StaleKeys
    /\ last.before = cache

(***************************************************************************)
(* Renaming a directory (C37).                                             *)
(***************************************************************************)
Below(k, d) == StartsWith(k, d \o << Sep >>)

\* The call just made is a rename that moved the directory at its first path
\* to another path.
DirRenamed ==
    /\ last.op \in RenameOps
    /\ Succeeded
    /\ Key(last.a) # Key(last.b)
    /\ Exists(last.diskBefore.names, Key(last.a))
    /\ last.diskBefore.names[Key(last.a)].kind = "dir"

\* The paths given to calls that resolve to a key below the renamed directory.
PathsBelowRenamed == {p \in PathArgs : IsString(p) /\ Below(Key(p), Key(last.a))}

NoEntryBelowRenamed ==
    /\ \A k \in DOMAIN cache.store : ~Below(k, Key(last.a))
    /\ \A p \in PathsBelowRenamed :
           \A e \in readFile(p) : e.res = FsThrew("ENOENT")

\* C37: after rename(d, e) succeeds on a directory d the cache holds no entry
\* under a key below d, and a following readFile of a path below d fails with
\* the filesystem's not-found error.
C37_RenamedDirectoryLeavesNoEntry == DirRenamed => NoEntryBelowRenamed

\* C37 for a directory with nothing cached below it: the rename adds no entry
\* below d, and a following readFile below d fails with not-found.
C37_RenamedUncachedDirectory ==
    (DirRenamed /\ \A k \in DOMAIN last.before.store : ~Below(k, Key(last.a)))
        => NoEntryBelowRenamed

\* A directory with a cached file below it has been renamed; the entry is
\* still in the cache under its old key, and the file is no longer there.
C37_EntryBelowRenamedKept ==
    /\ DirRenamed
    /\ \E p \in PathsBelowRenamed :
          /\ CacheHas(cache, Key(p))
          /\ ~Exists(fs.names, Key(p))
          /\ \A e \in readFile(p) : e.res = Returned(CacheGet(cache, Key(p)))

(***************************************************************************)
(* copyFile (C38).                                                         *)
(***************************************************************************)
CopyCalled ==
    /\ last.op = "copyFile"
    /\ IsString(last.a)
    /\ IsString(last.b)

\* The copy primitive was called once, with the resolved source and the
\* resolved destination, which are the data directory joined with the
\* strings given; a copy that succeeded left the source's bytes at the
\* destination.
CopiedResolved ==
    /\ Key(last.a) = Joined(last.a)
    /\ Key(last.b) = Joined(last.b)
    /\ last.calls = << FsCall("copyFile", << Key(last.a), Key(last.b) >>) >>
    /\ Succeeded =>
          LET s == FsReadFile(last.diskBefore, Key(last.a))
              d == FsReadFile(fs, Key(last.b))
          IN  s.err = "" /\ d.err = "" /\ d.data = s.data

\* C38: copyFile refuses the call unless both resolved paths lie in the data
\* directory, and then copies the file at the resolved source to the resolved
\* destination: the copy primitive is given the resolved paths, never the
\* strings of the caller.
C38_CopyFileCheckedAndResolved ==
    CopyCalled =>
        /\ (~InsideRoot(Key(last.a)) \/ ~InsideRoot(Key(last.b))) =>
              /\ last.outcome = "RangeError"
              /\ last.calls = << >>
              /\ fs = last.diskBefore
        /\ GuardPassed => CopiedResolved

\* C38, of the calls the guard lets through only.
C38_CopyFileResolvedPastGuard == (CopyCalled /\ GuardPassed) => CopiedResolved

\* A file below a directory has been copied onto a path of the data directory:
\* the paths handed to the primitive are not the strings given.
C38_CopiedInside ==
    /\ CopyCalled
    /\ Succeeded
    /\ InsideRoot(Key(last.a))
    /\ InsideRoot(Key(last.b))
    /\ Key(last.a) # Key(last.b)
    /\ last.calls[1].paths # << last.a, last.b >>
    /\ fs # last.diskBefore

(***************************************************************************)
(* isFile against the disk (C39).                                          *)
(***************************************************************************)
\* The path strings an isFile or isFileSync made now would answer OK(true) for.
SaidToBeFiles ==
    {p \in PathArgs :
        /\ IsString(p)
        /\ \E e \in isFile(p) \cup isFileSync(p) : e.res = ResultOKFlag(TRUE)}

IsFileOnDisk(p) == FsLstat(fs, Key(p)) = [err |-> "", kind |-> "file"]

\* C39: after any sequence of operations isFile(p) and isFileSync(p) answer
\* OK(true) only when the resolved path is a regular file on the disk; an
\* entry of the cache never makes them answer true for a path that is no
\* longer a file.
C39_IsFileOnlyForFilesOnDisk == \A p \in SaidToBeFiles : IsFileOnDisk(p)

\* C39 for the paths the cache holds no entry of: the answer is the disk's.
C39_IsFileOfUncachedPath ==
    \A p \in SaidToBeFiles : ~CacheHas(cache, Key(p)) => IsFileOnDisk(p)

\* isFile answers true for a path the disk has nothing at, because the cache
\* holds its key; for another path, not cached, it answers true from the disk.
C39_TrueFromCacheOnly ==
    /\ \E p \in SaidToBeFiles :
          /\ CacheHas(cache, Key(p))
          /\ InsideRoot(Key(p))
          /\ FsLstat(fs, Key(p)).err = "ENOENT"
    /\ \E p \in SaidToBeFiles : ~CacheHas(cache, Key(p))

(***************************************************************************)
(* The Result class.  A JavaScript value is a record of its type t, its    *)
(* content v and who made it (by); a Result is the record of its two       *)
(* private fields.  The caller makes Results and calls their methods; the  *)
(* variable last holds the Result made (self), the call, its argument and  *)
(* what the call returned or threw.                                        *)
(***************************************************************************)
Undefined == [t |-> "undefined", v |-> "", by |-> ""]

\* The values given as value, as error and to expectOK.
ResultValues ==
    { Undefined,
      [t |-> "null", v |-> "", by |-> "caller"],
      [t |-> "number", v |-> "0", by |-> "caller"],
      [t |-> "string", v |-> "gone", by |-> "caller"],
      [t |-> "Buffer", v |-> "x", by |-> "caller"],
      [t |-> "Error", v |-> "ENOENT", by |-> "caller"],
      [t |-> "RangeError", v |-> "gone", by |-> "caller"] }

\* error instanceof Error
IsErrorObject(x) == x.t \in {"Error", "RangeError", "TypeError"}

\* constructor(value, error = undefined)
Result(value, error) == [value |-> value, error |-> error]

\* static OK(value), static E(error)
Result_OK(value) == Result(value, Undefined)
Result_E(error) == Result(Undefined, error)

\* get OK(), get E()
get_OK(r) == r.value
get_E(r) == r.error

\* An isOK that looks at the value instead of the error.
isOKByValue(r) == r.value # Undefined

isOK(r) == r.error = Undefined
isE(r) == r.error # Undefined

\* expectOK(error): what it returns (threw FALSE) or throws (threw TRUE).
expectOK(r, error) ==
    IF isOK(r) THEN [threw |-> FALSE, v |-> r.value]
    ELSE IF error.t = "string"
         THEN [threw |-> TRUE, v |-> [t |-> "Error", v |-> error.v, by |-> "expectOK"]]
    ELSE IF IsErrorObject(error) THEN [threw |-> TRUE, v |-> error]
    ELSE [threw |-> TRUE,
          v |-> [t |-> "TypeError",
                 v |-> "Expected error to be a String or an instance of Error",
                 by |-> "expectOK"]]

\* No Result has been made.
InitResult ==
    /\ last = [op |-> "", self |-> Result(Undefined, Undefined), arg |-> Undefined,
               ret |-> [threw |-> FALSE, v |-> Undefined]]
    /\ dataDir = NotAString
    /\ cache = NotAString
    /\ fs = RootOnly
    /\ nOps = 0
    /\ tasks = << >>

StaticOK ==
    /\ \E value \in ResultValues :
          last' = [op |-> "Result.OK", self |-> Result_OK(value), arg |-> value,
                   ret |-> [threw |-> FALSE, v |-> Undefined]]
    /\ UNCHANGED << dataDir, cache, fs, nOps, tasks >>

StaticE ==
    /\ \E error \in ResultValues :
          last' = [op |-> "Result.E", self |-> Result_E(error), arg |-> error,
                   ret |-> [threw |-> FALSE, v |-> Undefined]]
    /\ UNCHANGED << dataDir, cache, fs, nOps, tasks >>

NewResult ==
    /\ \E value \in ResultValues, error \in ResultValues :
          last' = [op |-> "new Result", self |-> Result(value, error), arg |-> error,
                   ret |-> [threw |-> FALSE, v |-> Undefined]]
    /\ UNCHANGED << dataDir, cache, fs, nOps, tasks >>

GetOK ==
    /\ last.op # ""
    /\ last' = [last EXCEPT !.op = "OK", !.arg = Undefined,
                            !.ret = [threw |-> FALSE, v |-> get_OK(last.self)]]
    /\ UNCHANGED << dataDir, cache, fs, nOps, tasks >>

GetE ==
    /\ last.op # ""
    /\ last' = [last EXCEPT !.op = "E", !.arg = Undefined,
                            !.ret = [threw |-> FALSE, v |-> get_E(last.self)]]
    /\ UNCHANGED << dataDir, cache, fs, nOps, tasks >>

IsOK ==
    /\ last.op # ""
    /\ last' = [last EXCEPT !.op = "isOK", !.arg = Undefined,
                   !.ret = [threw |-> FALSE,
                            v |-> [t |-> "boolean",
                                   v |-> IF isOK(last.self) THEN "true" ELSE "false",
                                   by |-> "isOK"]]]
    /\ UNCHANGED << dataDir, cache, fs, nOps, tasks >>

IsE ==
    /\ last.op # ""
    /\ last' = [last EXCEPT !.op = "isE", !.arg = Undefined,
                   !.ret = [threw |-> FALSE,
                            v |-> [t |-> "boolean",
                                   v |-> IF isE(last.self) THEN "true" ELSE "false",
                                   by |-> "isE"]]]
    /\ UNCHANGED << dataDir, cache, fs, nOps, tasks >>

ExpectOK ==
    /\ last.op # ""
    /\ \E error \in ResultValues :
          last' = [last EXCEPT !.op = "expectOK", !.arg = error,
                               !.ret = expectOK(last.self, error)]
    /\ UNCHANGED << dataDir, cache, fs, nOps, tasks >>

NextResult ==
    \/ StaticOK
    \/ StaticE
    \/ NewResult
    \/ GetOK
    \/ GetE
    \/ IsOK
    \/ IsE
    \/ ExpectOK

SpecResult == InitResult /\ [][NextResult]_vars

(***************************************************************************)
(* Properties of the Result class (SpecResult, C40).                       *)
(***************************************************************************)
\* Exactly one of isOK() and isE() holds of the Result made, and the Results
\* of the two static makers are what they were given.
OneOfOKAndE ==
    /\ isOK(last.self) # isE(last.self)
    /\ last.op = "Result.OK" =>
          isOK(last.self) /\ get_OK(last.self) = last.arg
    /\ (last.op = "Result.E" /\ last.arg # Undefined) =>
          isE(last.self) /\ get_E(last.self) = last.arg
    /\ last.op = "isOK" => last.ret.v.v = (IF isOK(last.self) THEN "true" ELSE "false")
    /\ last.op = "isE" => last.ret.v.v = (IF isOK(last.self) THEN "false" ELSE "true")
    /\ last.op = "OK" => last.ret.v = last.self.value
    /\ last.op = "E" => last.ret.v = last.self.error

\* expectOK of an OK Result returned its value, and no other expectOK returned.
ExpectOKReturnsValue ==
    last.op = "expectOK" =>
        /\ ~last.ret.threw <=> isOK(last.self)
        /\ ~last.ret.threw => last.ret.v = get_OK(last.self)

\* The Error an expectOK builds from the string s.
ErrorOf(s) == [t |-> "Error", v |-> s.v, by |-> "expectOK"]

\* C40: exactly one of isOK() and isE() holds of every Result; Result.OK(v)
\* is OK with OK equal to v and Result.E(e) is E with E equal to e; expectOK
\* returns the value exactly when isOK() holds, and otherwise throws the
\* Error it was given or an Error built from the string it was given.
C40_ResultIsOKOrE ==
    /\ OneOfOKAndE
    /\ ExpectOKReturnsValue
    /\ (last.op = "expectOK" /\ last.ret.threw) =>
          \/ IsErrorObject(last.arg) /\ last.ret.v = last.arg
          \/ last.arg.t = "string" /\ last.ret.v = ErrorOf(last.arg)

\* C40 as the code has it: the same, with two provisos.  An expectOK of an E
\* Result that is given neither a string nor an Error throws a TypeError; and
\* Result.E(undefined) is an OK Result, undefined being the mark of no error.
C40_ResultIsOKOrEOrTypeError ==
    /\ OneOfOKAndE
    /\ ExpectOKReturnsValue
    /\ (last.op = "expectOK" /\ last.ret.threw) =>
          \/ IsErrorObject(last.arg) /\ last.ret.v = last.arg
          \/ last.arg.t = "string" /\ last.ret.v = ErrorOf(last.arg)
          \/ /\ ~IsErrorObject(last.arg)
             /\ last.arg.t # "string"
             /\ last.ret.v.t = "TypeError"
             /\ last.ret.v.by = "expectOK"
    /\ (last.op = "Result.E" /\ last.arg = Undefined) => isOK(last.self)

\* expectOK of an E Result was called with no argument and threw a TypeError.
C40_Witness ==
    /\ last.op = "expectOK"
    /\ isE(last.self)
    /\ IsErrorObject(get_E(last.self))
    /\ last.arg = Undefined
    /\ last.ret.threw
    /\ last.ret.v.t = "TypeError"

====
